---- MODULE Spec2Model ----
(***************************************************************************)
(* Host database operations of compass (compass/db/api/host.py) and the    *)
(* database helpers they are built on (compass/db/api/utils.py).           *)
(*                                                                         *)
(* The store is the record db: hosts with their state record, the          *)
(* cluster memberships (clusterhosts) with their state record, the         *)
(* clusters with their state record, and the host log histories.  Every    *)
(* action is one call of one operation of the host API, decorators         *)
(* included; call holds what was called, result what it raised and what    *)
(* it sent to celery, and pre the store as it was when the call started.   *)
(***************************************************************************)
EXTENDS Integers, Sequences, FiniteSets, TLC

VARIABLES db, pre, call, result

vars == <<db, pre, call, result>>

(***************************************************************************)
(* Bounds of the model.                                                    *)
(***************************************************************************)
NumHosts == 2
NumClusters == 2
MaxConfig == 1
MaxBatch == 2
NumFiles == 1
MaxPosition == 1

Hosts == 1..NumHosts
Clusters == 1..NumClusters
Configs == 0..MaxConfig
Filenames == 1..NumFiles
Positions == 0..MaxPosition

(***************************************************************************)
(* The values of state.state.  The code of host.py names UNINITIALIZED,    *)
(* INSTALLING and ERROR; READY stands for any other value a caller of      *)
(* update_host_state passes.                                               *)
(***************************************************************************)
States == {"UNINITIALIZED", "INSTALLING", "READY", "ERROR"}

(***************************************************************************)
(* The permissions the decorators of host.py name.                         *)
(***************************************************************************)
PERMISSION_UPDATE_HOST == "update_host"
PERMISSION_DEL_HOST == "del_host"
PERMISSION_ADD_HOST_CONFIG == "add_host_config"
PERMISSION_UPDATE_HOST_STATE == "update_host_state"
PERMISSION_DEPLOY_HOST == "deploy_host"
PERMISSION_LIST_HOSTS == "list_hosts"
PERMISSION_DEL_HOST_CONFIG == "del_host_config"
PERMISSION_ADD_HOST_NETWORK == "add_host_network"
PERMISSION_DEL_HOST_NETWORK == "del_host_network"

AllPermissions ==
    { PERMISSION_UPDATE_HOST, PERMISSION_DEL_HOST, PERMISSION_ADD_HOST_CONFIG,
      PERMISSION_UPDATE_HOST_STATE, PERMISSION_DEPLOY_HOST,
      PERMISSION_LIST_HOSTS, PERMISSION_DEL_HOST_CONFIG,
      PERMISSION_ADD_HOST_NETWORK, PERMISSION_DEL_HOST_NETWORK }

(***************************************************************************)
(* The callers: an administrator, the creator of every host and cluster,   *)
(* a user who holds every permission but created nothing, and a user who   *)
(* holds no permission.                                                    *)
(***************************************************************************)
UserIds == {"admin", "owner", "other", "guest"}

User(id) ==
    [ id |-> id,
      email |-> id,
      is_admin |-> (id = "admin"),
      perms |-> IF id = "guest" THEN {} ELSE AllPermissions ]

Users == { User(id) : id \in UserIds }

(***************************************************************************)
(* Which clusters a host is a member of (host.clusterhosts), and which     *)
(* hosts a cluster has (cluster.clusterhosts).  Host 1 is in every         *)
(* cluster, host h in the clusters 1 .. NumClusters - h + 1.               *)
(***************************************************************************)
Member(h, c) == c <= NumClusters - h + 1

ClusterHosts == { m \in Hosts \X Clusters : Member(m[1], m[2]) }

ClustersOf(h) == { c \in Clusters : <<h, c>> \in ClusterHosts }

HostsOf(c) == { h \in Hosts : <<h, c>> \in ClusterHosts }

(***************************************************************************)
(* What an operation hands back to its decorators: the store as the body   *)
(* left it, the exception it raised ("none" when it returned), and the     *)
(* tasks it sent to celery, in order.                                      *)
(***************************************************************************)
Raise(d, e, s) == [db |-> d, exc |-> e, sent |-> s]

Return(d, s) == [db |-> d, exc |-> "none", sent |-> s]

NoTask == << >>

(***************************************************************************)
(* utils.get_db_object(session, table, **kwargs) with                      *)
(* exception_when_missing left True: FALSE where the code raises           *)
(* RecordNotExists, no record of the table having the key.                 *)
(***************************************************************************)
get_db_object(table, key) == table[key].present

(***************************************************************************)
(* utils.update_db_object: setattr of every keyword on the object.  The    *)
(* object's update() and validate() hooks are methods of compass.db.models *)
(* and are taken to leave the attributes of this model as they are.        *)
(***************************************************************************)
update_db_object(db_object, kwargs) ==
    [ key \in DOMAIN db_object |->
        IF key \in DOMAIN kwargs THEN kwargs[key] ELSE db_object[key] ]

(***************************************************************************)
(* utils.del_db_object on a host: session.delete(host).  The host's        *)
(* memberships go with the record.                                         *)
(***************************************************************************)
del_db_object(d, host_id) == [d EXCEPT !.host[host_id].present = FALSE]

(***************************************************************************)
(* host.clusterhosts and cluster.clusterhosts, in the order of the ids.    *)
(***************************************************************************)
RECURSIVE SortedSeq(_)
SortedSeq(S) ==
    IF S = {} THEN << >>
    ELSE LET m == CHOOSE x \in S : \A y \in S : x <= y
         IN <<m>> \o SortedSeq(S \ {m})

host_clusterhosts(d, host_id) == SortedSeq(ClustersOf(host_id))

cluster_clusterhosts(d, cluster_id) ==
    { h \in HostsOf(cluster_id) : d.host[h].present }

(***************************************************************************)
(* database.run_in_session: the body runs in one session whose             *)
(* transaction commits when the body returns and rolls back when it        *)
(* raises; the helpers of utils join it (subtransactions=True).            *)
(***************************************************************************)
run_in_session_commits_always(d, r) == r

run_in_session(d, r) ==
    [r EXCEPT !.db = IF r.exc = "none" THEN r.db ELSE d]

(***************************************************************************)
(* user_api.check_user_permission_in_session(permission): Forbidden        *)
(* unless the caller holds the permission; the body is not run then.       *)
(***************************************************************************)
check_user_permission_in_session(user, permission, d, r) ==
    IF permission \in user.perms THEN r ELSE Raise(d, "Forbidden", NoTask)

(***************************************************************************)
(* host.is_host_validated: Forbidden unless host.config_validated.         *)
(***************************************************************************)
is_host_validated_unchecked(host) == TRUE

is_host_validated(host) == host.config_validated

(***************************************************************************)
(* host.is_host_editable with exception_when_not_editable left True: the   *)
(* value is FALSE where the code raises Forbidden.                         *)
(***************************************************************************)
is_host_editable_installing_any_intent(host, user, reinstall_os_set) ==
    IF ~reinstall_os_set /\ host.state.state = "INSTALLING" THEN FALSE
    ELSE IF ~reinstall_os_set /\ ~host.reinstall_os THEN FALSE
    ELSE IF ~user.is_admin /\ host.creator_id # user.id THEN FALSE
    ELSE TRUE

is_host_editable(host, user, reinstall_os_set) ==
    IF reinstall_os_set /\ host.state.state = "INSTALLING" THEN FALSE
    ELSE IF ~reinstall_os_set /\ ~host.reinstall_os THEN FALSE
    ELSE IF ~user.is_admin /\ host.creator_id # user.id THEN FALSE
    ELSE TRUE

(***************************************************************************)
(* cluster_api.is_cluster_editable, as del_host calls it                   *)
(* (reinstall_distributed_system_set=True): the cluster-side counterpart   *)
(* of is_host_editable.                                                    *)
(***************************************************************************)
is_cluster_editable(cluster, user) ==
    IF cluster.state.state = "INSTALLING" THEN FALSE
    ELSE IF ~user.is_admin /\ cluster.creator_id # user.id THEN FALSE
    ELSE TRUE

(***************************************************************************)
(* The task a call sends with celery_client.celery.send_task.              *)
(***************************************************************************)
Task(name, args) == [name |-> name, args |-> args]

(***************************************************************************)
(* del_host, lines 338-346: the loop over host.clusterhosts.  Each         *)
(* membership that is not UNINITIALIZED is set to ERROR when force is      *)
(* given, then the cluster must be editable, then its id is collected.     *)
(***************************************************************************)
RECURSIVE del_host_clusterhosts(_, _, _, _, _, _)
del_host_clusterhosts(d, user, host_id, force, todo, cluster_ids) ==
    IF todo = << >>
    THEN [db |-> d, exc |-> "none", cluster_ids |-> cluster_ids]
    ELSE LET cluster_id == Head(todo)
             clusterhost == d.clusterhost[<<host_id, cluster_id>>]
             d1 == IF clusterhost.state.state # "UNINITIALIZED" /\ force
                   THEN [d EXCEPT
                           !.clusterhost[<<host_id, cluster_id>>].state.state =
                               "ERROR"]
                   ELSE d
         IN  IF ~is_cluster_editable(d1.cluster[cluster_id], user)
             THEN [db |-> d1, exc |-> "Forbidden", cluster_ids |-> cluster_ids]
             ELSE del_host_clusterhosts(
                      d1, user, host_id, force, Tail(todo),
                      Append(cluster_ids, cluster_id))

(***************************************************************************)
(* del_host, line 348: the host is deleted in the call itself when it is   *)
(* UNINITIALIZED or the caller asks for the database only.                 *)
(***************************************************************************)
del_host_now_database_only(host, from_database_only) == from_database_only

del_host_now(host, from_database_only) ==
    host.state.state = "UNINITIALIZED" \/ from_database_only

(***************************************************************************)
(* del_host, lines 355-360: the request sent to celery.                    *)
(***************************************************************************)
delete_host_task_without_clusters(user, host_id, cluster_ids) ==
    Task("compass.tasks.delete_host", <<user.email, host_id, << >> >>)

delete_host_task(user, host_id, cluster_ids) ==
    Task("compass.tasks.delete_host", <<user.email, host_id, cluster_ids>>)

(***************************************************************************)
(* del_host, lines 323-364: the body under the decorators.                 *)
(***************************************************************************)
del_host_body(d, user, host_id, force, from_database_only) ==
    IF ~get_db_object(d.host, host_id)
    THEN Raise(d, "RecordNotExists", NoTask)
    ELSE
    LET d1 == IF d.host[host_id].state.state # "UNINITIALIZED" /\ force
              THEN [d EXCEPT !.host[host_id].state.state = "ERROR"]
              ELSE d
    IN  IF ~is_host_editable(d1.host[host_id], user, TRUE)
        THEN Raise(d1, "Forbidden", NoTask)
        ELSE
        LET loop == del_host_clusterhosts(
                        d1, user, host_id, force,
                        host_clusterhosts(d1, host_id), << >>)
        IN  IF loop.exc # "none"
            THEN Raise(loop.db, loop.exc, NoTask)
            ELSE IF del_host_now(loop.db.host[host_id], from_database_only)
            THEN Return(del_db_object(loop.db, host_id), NoTask)
            ELSE Return(loop.db,
                        << delete_host_task(user, host_id, loop.cluster_ids) >>)

(***************************************************************************)
(* del_host with its decorators, lines 314-322.                            *)
(***************************************************************************)
del_host_force_always(d, user, host_id, force, from_database_only) ==
    run_in_session(d,
        check_user_permission_in_session(user, PERMISSION_DEL_HOST, d,
            del_host_body(d, user, host_id, TRUE, from_database_only)))

del_host(d, user, host_id, force, from_database_only) ==
    run_in_session(d,
        check_user_permission_in_session(user, PERMISSION_DEL_HOST, d,
            del_host_body(d, user, host_id, force, from_database_only)))

(***************************************************************************)
(* poweron_host, poweroff_host and reset_host, lines 927-1008: the three   *)
(* bodies differ in the name of the task only.                             *)
(***************************************************************************)
power_host_body(d, user, host_id, task_name) ==
    IF ~get_db_object(d.host, host_id)
    THEN Raise(d, "RecordNotExists", NoTask)
    ELSE IF ~is_host_validated(d.host[host_id])
    THEN Raise(d, "Forbidden", NoTask)
    ELSE Return(d, << Task(task_name, <<host_id>>) >>)

poweron_host(d, user, host_id) ==
    run_in_session(d,
        check_user_permission_in_session(user, PERMISSION_DEPLOY_HOST, d,
            power_host_body(d, user, host_id, "compass.tasks.poweron_host")))

poweroff_host_sends_poweron(d, user, host_id) ==
    run_in_session(d,
        check_user_permission_in_session(user, PERMISSION_DEPLOY_HOST, d,
            power_host_body(d, user, host_id, "compass.tasks.poweron_host")))

poweroff_host(d, user, host_id) ==
    run_in_session(d,
        check_user_permission_in_session(user, PERMISSION_DEPLOY_HOST, d,
            power_host_body(d, user, host_id, "compass.tasks.poweroff_host")))

reset_host(d, user, host_id) ==
    run_in_session(d,
        check_user_permission_in_session(user, PERMISSION_DEPLOY_HOST, d,
            power_host_body(d, user, host_id, "compass.tasks.reset_host")))

(***************************************************************************)
(* update_host_deployed_config, lines 393-412.  replace_filters renames    *)
(* os_config to deployed_os_config before the body sees it.                *)
(***************************************************************************)
update_host_deployed_config_body(d, user, host_id, kwargs) ==
    IF ~get_db_object(d.host, host_id)
    THEN Raise(d, "RecordNotExists", NoTask)
    ELSE IF ~is_host_editable(d.host[host_id], user, FALSE)
    THEN Raise(d, "Forbidden", NoTask)
    ELSE IF ~is_host_validated(d.host[host_id])
    THEN Raise(d, "Forbidden", NoTask)
    ELSE Return([d EXCEPT !.host[host_id] = update_db_object(@, kwargs)],
                NoTask)

update_host_deployed_config(d, user, host_id, os_config) ==
    run_in_session(d,
        check_user_permission_in_session(user, PERMISSION_ADD_HOST_CONFIG, d,
            update_host_deployed_config_body(
                d, user, host_id, [deployed_os_config |-> os_config])))

(***************************************************************************)
(* Keyword arguments are functions from the keys given to their values.    *)
(***************************************************************************)
NoKwargs == [key \in {} |-> TRUE]

kwargs_get(kwargs, key, default) ==
    IF key \in DOMAIN kwargs THEN kwargs[key] ELSE default

(***************************************************************************)
(* _update_host, lines 276-291.                                            *)
(***************************************************************************)
_update_host(d, user, host_id, kwargs) ==
    IF ~get_db_object(d.host, host_id)
    THEN Raise(d, "RecordNotExists", NoTask)
    ELSE IF ~is_host_editable(d.host[host_id], user,
                              kwargs_get(kwargs, "reinstall_os", FALSE))
    THEN Raise(d, "Forbidden", NoTask)
    ELSE Return([d EXCEPT !.host[host_id] = update_db_object(@, kwargs)],
                NoTask)

(***************************************************************************)
(* update_host, lines 294-300.                                             *)
(***************************************************************************)
update_host(d, user, host_id, kwargs) ==
    run_in_session(d,
        check_user_permission_in_session(user, PERMISSION_UPDATE_HOST, d,
            _update_host(d, user, host_id, kwargs)))

(***************************************************************************)
(* update_hosts, lines 303-311: _update_host on each item of data in       *)
(* turn, in the one session of the call.                                   *)
(***************************************************************************)
RECURSIVE update_hosts_body(_, _, _)
update_hosts_body(d, user, data) ==
    IF data = << >>
    THEN Return(d, NoTask)
    ELSE LET host_data == Head(data)
             r == _update_host(d, user, host_data.host_id, host_data.kwargs)
         IN  IF r.exc # "none"
             THEN r
             ELSE update_hosts_body(r.db, user, Tail(data))

update_hosts(d, user, data) ==
    run_in_session(d,
        check_user_permission_in_session(user, PERMISSION_UPDATE_HOST, d,
            update_hosts_body(d, user, data)))

(***************************************************************************)
(* update_host_state, lines 776-791.                                       *)
(***************************************************************************)
update_host_state_body(d, user, host_id, kwargs) ==
    IF ~get_db_object(d.host, host_id)
    THEN Raise(d, "RecordNotExists", NoTask)
    ELSE Return([d EXCEPT !.host[host_id].state = update_db_object(@, kwargs)],
                NoTask)

update_host_state(d, user, host_id, kwargs) ==
    run_in_session(d,
        check_user_permission_in_session(
            user, PERMISSION_UPDATE_HOST_STATE, d,
            update_host_state_body(d, user, host_id, kwargs)))

(***************************************************************************)
(* update_host_state_internal, lines 816-836: the two maps of a ready      *)
(* transition, one entry per cluster of the host.                          *)
(***************************************************************************)
ready_triggered(host, kwargs) ==
    "ready" \in DOMAIN kwargs /\ kwargs["ready"] /\ ~host.state.ready

clusterhost_ready_with_distributed_system(d, host_id) ==
    [ cluster_id \in ClustersOf(host_id) |->
        d.cluster[cluster_id].distributed_system ]

clusterhost_ready(d, host_id) ==
    [ cluster_id \in ClustersOf(host_id) |->
        ~d.cluster[cluster_id].distributed_system ]

cluster_os_ready_counting_itself(d, host_id) ==
    [ cluster_id \in ClustersOf(host_id) |->
        \A host_in_cluster \in cluster_clusterhosts(d, cluster_id) :
            d.host[host_in_cluster].state.ready ]

cluster_os_ready(d, host_id) ==
    [ cluster_id \in ClustersOf(host_id) |->
        \A host_in_cluster \in cluster_clusterhosts(d, cluster_id) :
            host_in_cluster = host_id \/ d.host[host_in_cluster].state.ready ]

(***************************************************************************)
(* update_host_state_internal, lines 844-851: ready=False written to       *)
(* every membership of the host and to the cluster of each.                *)
(***************************************************************************)
cascade_not_ready_memberships_only(d, host_id) ==
    [d EXCEPT
       !.clusterhost =
           [ m \in DOMAIN @ |->
               IF m[1] = host_id
               THEN [@[m] EXCEPT !.state =
                        update_db_object(@, [ready |-> FALSE])]
               ELSE @[m] ]]

cascade_not_ready(d, host_id) ==
    [d EXCEPT
       !.clusterhost =
           [ m \in DOMAIN @ |->
               IF m[1] = host_id
               THEN [@[m] EXCEPT !.state =
                        update_db_object(@, [ready |-> FALSE])]
               ELSE @[m] ],
       !.cluster =
           [ c \in DOMAIN @ |->
               IF c \in ClustersOf(host_id)
               THEN [@[c] EXCEPT !.state =
                        update_db_object(@, [ready |-> FALSE])]
               ELSE @[c] ]]

(***************************************************************************)
(* update_host_state_internal, lines 794-869.                              *)
(***************************************************************************)
update_host_state_internal_body(d, user, hostname, from_database_only, kwargs) ==
    IF ~get_db_object(d.host, hostname)
    THEN Raise(d, "RecordNotExists", NoTask)
    ELSE
    LET host == d.host[hostname]
        triggered == ready_triggered(host, kwargs)
    IN  IF ~triggered \/ from_database_only
        THEN LET d1 == [d EXCEPT !.host[hostname].state =
                                     update_db_object(@, kwargs)]
             IN  IF ~d1.host[hostname].state.ready
                 THEN Return(cascade_not_ready(d1, hostname), NoTask)
                 ELSE Return(d1, NoTask)
        ELSE Return(d,
                    << Task("compass.tasks.os_installed",
                            << hostname,
                               clusterhost_ready(d, hostname),
                               cluster_os_ready(d, hostname) >>) >>)

update_host_state_internal(d, user, hostname, from_database_only, kwargs) ==
    run_in_session(d,
        check_user_permission_in_session(
            user, PERMISSION_UPDATE_HOST_STATE, d,
            update_host_state_internal_body(
                d, user, hostname, from_database_only, kwargs)))

(***************************************************************************)
(* utils.add_db_object, lines 552-601, on a table keyed by the positional  *)
(* arguments: DuplicatedRecord when a record of the key exists and         *)
(* exception_when_existing is set; otherwise the record found, or a new    *)
(* one, has every keyword set on it.                                       *)
(***************************************************************************)
add_db_object(db_object, new_object, exception_when_existing, kwargs) ==
    IF db_object.present /\ exception_when_existing
    THEN [exc |-> "DuplicatedRecord", db_object |-> db_object]
    ELSE [exc |-> "none",
          db_object |->
              update_db_object(
                  IF db_object.present THEN db_object ELSE new_object, kwargs)]

(***************************************************************************)
(* models.HostLogHistory(id, filename): a new log history.                 *)
(***************************************************************************)
HostLogHistory == [present |-> TRUE, position |-> 0]

(***************************************************************************)
(* get_host_log_histories, lines 872-879.                                  *)
(***************************************************************************)
get_host_log_histories(d, user, host_id) ==
    run_in_session(d, Return(d, NoTask))

(***************************************************************************)
(* get_host_log_history, lines 882-889.                                    *)
(***************************************************************************)
get_host_log_history(d, user, host_id, filename) ==
    run_in_session(d,
        IF ~get_db_object(d.log, <<host_id, filename>>)
        THEN Raise(d, "RecordNotExists", NoTask)
        ELSE Return(d, NoTask))

(***************************************************************************)
(* update_host_log_history, lines 892-906.                                 *)
(***************************************************************************)
update_host_log_history(d, user, host_id, filename, kwargs) ==
    run_in_session(d,
        IF ~get_db_object(d.log, <<host_id, filename>>)
        THEN Raise(d, "RecordNotExists", NoTask)
        ELSE Return([d EXCEPT !.log[<<host_id, filename>>] =
                                  update_db_object(@, kwargs)],
                    NoTask))

(***************************************************************************)
(* add_host_log_history, lines 909-924.                                    *)
(***************************************************************************)
add_host_log_history_body(d, user, host_id, exception_when_existing, filename, kwargs) ==
    LET added == add_db_object(d.log[<<host_id, filename>>],
                               HostLogHistory, exception_when_existing,
                               kwargs)
    IN  IF added.exc # "none"
        THEN Raise(d, added.exc, NoTask)
        ELSE Return([d EXCEPT !.log[<<host_id, filename>>] =
                                  added.db_object],
                    NoTask)

add_host_log_history(d, user, host_id, exception_when_existing, filename, kwargs) ==
    run_in_session(d,
        add_host_log_history_body(d, user, host_id, exception_when_existing,
                                  filename, kwargs))

(***************************************************************************)
(* The stores the calls start from.  A host is a host of the user "owner"  *)
(* with nothing deployed; clusters with an odd id have a distributed       *)
(* system and are the owner's, the others are the administrator's.  The    *)
(* memberships of the odd clusters are INSTALLING, the others              *)
(* UNINITIALIZED, and memberships and clusters are ready, as the cluster   *)
(* API may have left them.                                                 *)
(***************************************************************************)
Host(state, ready, reinstall_os, config_validated) ==
    [ present |-> TRUE,
      creator_id |-> "owner",
      reinstall_os |-> reinstall_os,
      config_validated |-> config_validated,
      deployed_os_config |-> 0,
      state |-> [state |-> state, ready |-> ready] ]

InitClusterHost ==
    [ m \in ClusterHosts |->
        [ state |->
            [ state |-> IF m[2] % 2 = 1 THEN "INSTALLING" ELSE "UNINITIALIZED",
              ready |-> TRUE ] ] ]

InitCluster ==
    [ c \in Clusters |->
        [ distributed_system |-> (c % 2 = 1),
          creator_id |-> IF c % 2 = 1 THEN "owner" ELSE "admin",
          state |-> [state |-> "UNINITIALIZED", ready |-> TRUE] ] ]

NoLog == [present |-> FALSE, position |-> 0]

Db(host) ==
    [ host |-> host,
      clusterhost |-> InitClusterHost,
      cluster |-> InitCluster,
      log |-> [key \in Hosts \X Filenames |-> NoLog] ]

NoCall == [op |-> "none"]

NoResult == [exc |-> "none", sent |-> NoTask]

(***************************************************************************)
(* One call, made when the call before it has returned to its caller: the  *)
(* store becomes what the operation left, pre keeps what it was, call and  *)
(* result say what was called and how it ended.                            *)
(***************************************************************************)
Called(c, r) ==
    /\ call = NoCall
    /\ db' = r.db
    /\ pre' = db
    /\ call' = c
    /\ result' = [exc |-> r.exc, sent |-> r.sent]

(***************************************************************************)
(* The caller takes the result; the store is ready for the next call.      *)
(***************************************************************************)
Returned ==
    /\ call # NoCall
    /\ db' = db
    /\ pre' = db
    /\ call' = NoCall
    /\ result' = NoResult

(***************************************************************************)
(* Deleting hosts.  The hosts start in any state, not ready, flagged       *)
(* reinstall_os.                                                           *)
(***************************************************************************)
DelHost ==
    \E user \in Users, host_id \in Hosts, force \in BOOLEAN, from_database_only \in BOOLEAN :
        Called([op |-> "del_host", user |-> user.id, host_id |-> host_id,
                force |-> force, from_database_only |-> from_database_only],
               del_host(db, user, host_id, force, from_database_only))

Init ==
    /\ db \in { Db(host) :
                  host \in [Hosts -> { Host(s, FALSE, TRUE, FALSE) : s \in States }] }
    /\ pre = db
    /\ call = NoCall
    /\ result = NoResult

Next ==
    \/ DelHost
    \/ Returned

Spec == Init /\ [][Next]_vars

(***************************************************************************)
(* What the caller of the last call is, and the host the call names as it  *)
(* was before the call and as it is after it.                              *)
(***************************************************************************)
Caller == User(call.user)

HostBefore == pre.host[call.host_id]

HostAfter == db.host[call.host_id]

(***************************************************************************)
(* The caller of del_host passes the checks of the call: the permission,   *)
(* is_host_editable on the host (after the override of force) and          *)
(* is_cluster_editable on each cluster of the host.                        *)
(***************************************************************************)
DelHostChecksPass ==
    /\ PERMISSION_DEL_HOST \in Caller.perms
    /\ (HostBefore.state.state = "INSTALLING" => call.force)
    /\ Caller.is_admin \/ HostBefore.creator_id = Caller.id
    /\ \A c \in ClustersOf(call.host_id) :
           is_cluster_editable(pre.cluster[c], Caller)

(* C1: del_host on a host whose state is UNINITIALIZED, by a caller who    *)
(* passes the permission and editability checks, returns with the host     *)
(* record removed and nothing sent to celery, whatever force and           *)
(* from_database_only are.                                                 *)
C1_DelUninitializedHost ==
    ( /\ call.op = "del_host"
      /\ HostBefore.present
      /\ HostBefore.state.state = "UNINITIALIZED"
      /\ DelHostChecksPass )
    => /\ result.exc = "none"
       /\ ~HostAfter.present
       /\ result.sent = NoTask

C1_Witness ==
    /\ call.op = "del_host"
    /\ HostBefore.present
    /\ HostBefore.state.state = "UNINITIALIZED"
    /\ DelHostChecksPass
    /\ call.force
    /\ ~call.from_database_only
    /\ ClustersOf(call.host_id) # {}
    /\ ~HostAfter.present

C9_RaiseRollsBack ==
    (call.op # "none" /\ result.exc # "none") => db = pre

(* del_host with force has set the state of an INSTALLING host to ERROR    *)
(* and then raised Forbidden: the caller holds the permission but is not   *)
(* the creator of the host, or not of one of its clusters.                 *)
C9_Witness ==
    /\ call.op = "del_host"
    /\ call.force
    /\ PERMISSION_DEL_HOST \in Caller.perms
    /\ HostBefore.present
    /\ HostBefore.state.state = "INSTALLING"
    /\ result.exc = "Forbidden"
    /\ HostAfter.state.state = "INSTALLING"

(***************************************************************************)
(* Updating hosts, one by one and in batches.  The hosts start in any      *)
(* state, not ready, flagged reinstall_os.                                 *)
(***************************************************************************)
UpdatedFields == {NoKwargs} \cup { [reinstall_os |-> b] : b \in BOOLEAN }

UpdateHost ==
    \E user \in Users, host_id \in Hosts, kwargs \in UpdatedFields :
        Called([op |-> "update_host", user |-> user.id, host_id |-> host_id,
                kwargs |-> kwargs],
               update_host(db, user, host_id, kwargs))

HostData == [host_id : Hosts, kwargs : UpdatedFields \ {NoKwargs}]

Batches == UNION { [1..n -> HostData] : n \in 0..MaxBatch }

UpdateHosts ==
    \E user \in Users, data \in Batches :
        Called([op |-> "update_hosts", user |-> user.id, data |-> data],
               update_hosts(db, user, data))

InitUpdate ==
    /\ db \in { Db(host) :
                  host \in [Hosts -> { Host(s, FALSE, TRUE, FALSE) : s \in States }] }
    /\ pre = db
    /\ call = NoCall
    /\ result = NoResult

NextUpdate ==
    \/ UpdateHost
    \/ UpdateHosts
    \/ Returned

SpecUpdate == InitUpdate /\ [][NextUpdate]_vars

(***************************************************************************)
(* Every caller is_host_editable can be given: administrator or not,       *)
(* creator of the host or not.                                             *)
(***************************************************************************)
AnyUser == { [User(id) EXCEPT !.is_admin = a] : id \in UserIds, a \in BOOLEAN }

PresentHosts == { db.host[h] : h \in { x \in Hosts : db.host[x].present } }

(* C3 as amended: is_host_editable reports a host editable exactly when    *)
(* both hold: (with the reinstall-intent flag passed, the host state is    *)
(* not INSTALLING; without it, the host is flagged reinstall_os), and      *)
(* (the caller is an administrator or is the host's creator).              *)
C3_EditableRule ==
    \A host \in PresentHosts, user \in AnyUser, reinstall_os_set \in BOOLEAN :
        is_host_editable(host, user, reinstall_os_set)
            <=> /\ IF reinstall_os_set
                   THEN host.state.state # "INSTALLING"
                   ELSE host.reinstall_os
                /\ user.is_admin \/ host.creator_id = user.id

(* C3 as claimed: editable exactly when (the state is not INSTALLING or    *)
(* the reinstall-intent flag was passed) and (the host is flagged          *)
(* reinstall_os or the flag was passed) and (the caller is an              *)
(* administrator or the creator).                                          *)
C3_EditableRuleAsClaimed ==
    \A host \in PresentHosts, user \in AnyUser, reinstall_os_set \in BOOLEAN :
        is_host_editable(host, user, reinstall_os_set)
            <=> /\ host.state.state # "INSTALLING" \/ reinstall_os_set
                /\ host.reinstall_os \/ reinstall_os_set
                /\ user.is_admin \/ host.creator_id = user.id

(* update_host with reinstall_os=True, by the administrator, on an         *)
(* INSTALLING host was refused; and a host that is INSTALLING and flagged  *)
(* reinstall_os, one that is INSTALLING and not flagged, and one that is   *)
(* neither have all been seen.                                             *)
C3_Witness ==
    /\ call.op = "update_host"
    /\ call.user = "admin"
    /\ HostBefore.present
    /\ HostBefore.state.state = "INSTALLING"
    /\ call.kwargs = [reinstall_os |-> TRUE]
    /\ result.exc = "Forbidden"
    /\ \E h \in Hosts : db.host[h].state.state # "INSTALLING" /\ ~db.host[h].reinstall_os

(***************************************************************************)
(* Reporting host states.  The hosts start UNINITIALIZED and not ready.    *)
(***************************************************************************)
UpdatedStateFields == {NoKwargs} \cup { [state |-> s] : s \in States }

UpdateHostState ==
    \E user \in Users, host_id \in Hosts, kwargs \in UpdatedStateFields :
        Called([op |-> "update_host_state", user |-> user.id,
                host_id |-> host_id, kwargs |-> kwargs],
               update_host_state(db, user, host_id, kwargs))

UpdatedStateInternalFields == {NoKwargs} \cup { [ready |-> b] : b \in BOOLEAN }

UpdateHostStateInternal ==
    \E user \in Users, host_id \in Hosts, from_database_only \in BOOLEAN, kwargs \in UpdatedStateInternalFields :
        Called([op |-> "update_host_state_internal", user |-> user.id,
                host_id |-> host_id,
                from_database_only |-> from_database_only, kwargs |-> kwargs],
               update_host_state_internal(
                   db, user, host_id, from_database_only, kwargs))

InitState ==
    /\ db = Db([h \in Hosts |-> Host("UNINITIALIZED", FALSE, TRUE, FALSE)])
    /\ pre = db
    /\ call = NoCall
    /\ result = NoResult

NextState ==
    \/ UpdateHostState
    \/ UpdateHostStateInternal
    \/ Returned

SpecState == InitState /\ [][NextState]_vars

(***************************************************************************)
(* The last call is an update_host_state_internal that got past the        *)
(* permission check and found its host; Triggered: it asks for ready=True  *)
(* on a host that was not ready.                                           *)
(***************************************************************************)
StateInternalCall ==
    /\ call.op = "update_host_state_internal"
    /\ PERMISSION_UPDATE_HOST_STATE \in Caller.perms
    /\ HostBefore.present

Triggered ==
    /\ "ready" \in DOMAIN call.kwargs
    /\ call.kwargs["ready"]
    /\ ~HostBefore.state.ready

Payload == result.sent[1].args

(* C6: update_host_state_internal with ready=true on a host whose          *)
(* state.ready is false, from_database_only false, sends exactly one       *)
(* compass.tasks.os_installed request whose arguments are the host id, a   *)
(* membership-ready map and a cluster-os-ready map, each with one entry    *)
(* per cluster of the host, the membership-ready entry true exactly when   *)
(* the cluster has no distributed system; it writes nothing to the store.  *)
C6_ReadySendsOsInstalled ==
    (StateInternalCall /\ Triggered /\ ~call.from_database_only)
    => /\ result.exc = "none"
       /\ Len(result.sent) = 1
       /\ result.sent[1].name = "compass.tasks.os_installed"
       /\ Len(Payload) = 3
       /\ Payload[1] = call.host_id
       /\ DOMAIN Payload[2] = ClustersOf(call.host_id)
       /\ DOMAIN Payload[3] = ClustersOf(call.host_id)
       /\ \A c \in ClustersOf(call.host_id) :
              Payload[2][c] <=> ~pre.cluster[c].distributed_system
       /\ db = pre

C6_Witness ==
    /\ StateInternalCall /\ Triggered /\ ~call.from_database_only
    /\ Len(result.sent) = 1
    /\ \E c1 \in ClustersOf(call.host_id), c2 \in ClustersOf(call.host_id) :
           Payload[2][c1] /\ ~Payload[2][c2]

(* C7: update_host_state_internal whose ready flag is not going from       *)
(* false to true (ready absent, ready false, host already ready) or that   *)
(* is called with from_database_only sends nothing, writes the fields      *)
(* asked for to the host state, and, the host state not being ready        *)
(* afterwards, leaves every membership state and every cluster state of    *)
(* the host's clusters with ready=false.                                   *)
C7_NotTriggeredWritesAndCascades ==
    (StateInternalCall /\ (~Triggered \/ call.from_database_only))
    => /\ result.exc = "none"
       /\ result.sent = NoTask
       /\ \A key \in DOMAIN call.kwargs :
              HostAfter.state[key] = call.kwargs[key]
       /\ ~HostAfter.state.ready =>
              \A c \in ClustersOf(call.host_id) :
                  /\ ~db.clusterhost[<<call.host_id, c>>].state.ready
                  /\ ~db.cluster[c].state.ready

C7_Witness ==
    /\ StateInternalCall
    /\ ~Triggered
    /\ ~call.from_database_only
    /\ ~HostAfter.state.ready
    /\ \E c \in ClustersOf(call.host_id) :
           /\ pre.clusterhost[<<call.host_id, c>>].state.ready
           /\ pre.cluster[c].state.ready
           /\ ~db.clusterhost[<<call.host_id, c>>].state.ready
           /\ ~db.cluster[c].state.ready

(* C8: on a false-to-true ready transition of a host, the cluster-os-ready *)
(* entry of each cluster of the host is true exactly when every other      *)
(* member host of the cluster has state.ready true; the host itself, not   *)
(* ready yet, is not counted.                                              *)
C8_ClusterOsReadyOfOthers ==
    (StateInternalCall /\ Triggered /\ ~call.from_database_only)
    => \A c \in ClustersOf(call.host_id) :
           Payload[3][c] <=>
               \A other \in HostsOf(c) \ {call.host_id} :
                   pre.host[other].present => pre.host[other].state.ready

(* One request carries a true entry for a cluster that has another member, *)
(* which is ready, while the caller's host itself is not ready yet.        *)
C8_Witness ==
    /\ StateInternalCall /\ Triggered /\ ~call.from_database_only
    /\ Len(result.sent) = 1
    /\ \E c \in ClustersOf(call.host_id) :
           /\ HostsOf(c) \ {call.host_id} # {}
           /\ Payload[3][c]
           /\ ~HostBefore.state.ready

(***************************************************************************)
(* Power actions and the deployed configuration.  The hosts start in any   *)
(* of the states UNINITIALIZED and INSTALLING, flagged reinstall_os or     *)
(* not, their configuration validated or not.                              *)
(***************************************************************************)
PoweronHost ==
    \E user \in Users, host_id \in Hosts :
        Called([op |-> "poweron_host", user |-> user.id, host_id |-> host_id],
               poweron_host(db, user, host_id))

PoweroffHost ==
    \E user \in Users, host_id \in Hosts :
        Called([op |-> "poweroff_host", user |-> user.id, host_id |-> host_id],
               poweroff_host(db, user, host_id))

ResetHost ==
    \E user \in Users, host_id \in Hosts :
        Called([op |-> "reset_host", user |-> user.id, host_id |-> host_id],
               reset_host(db, user, host_id))

UpdateHostDeployedConfig ==
    \E user \in Users, host_id \in Hosts, os_config \in Configs :
        Called([op |-> "update_host_deployed_config", user |-> user.id,
                host_id |-> host_id, os_config |-> os_config],
               update_host_deployed_config(db, user, host_id, os_config))

InitConfig ==
    /\ db \in { Db(host) :
                  host \in [Hosts ->
                             { Host(s, FALSE, r, v) :
                                 s \in {"UNINITIALIZED", "INSTALLING"},
                                 r \in BOOLEAN, v \in BOOLEAN }] }
    /\ pre = db
    /\ call = NoCall
    /\ result = NoResult

NextConfig ==
    \/ PoweronHost
    \/ PoweroffHost
    \/ ResetHost
    \/ UpdateHostDeployedConfig
    \/ Returned

SpecConfig == InitConfig /\ [][NextConfig]_vars

(***************************************************************************)
(* The power actions and the task each is named for.                       *)
(***************************************************************************)
PowerOps == {"poweron_host", "poweroff_host", "reset_host"}

PowerTask(op) ==
    CASE op = "poweron_host" -> "compass.tasks.poweron_host"
      [] op = "poweroff_host" -> "compass.tasks.poweroff_host"
      [] op = "reset_host" -> "compass.tasks.reset_host"

(* C4: poweron_host, poweroff_host, reset_host and                         *)
(* update_host_deployed_config on a host whose config_validated is false   *)
(* raise Forbidden, send no task and write nothing.                        *)
C4_NotValidatedForbidden ==
    ( /\ call.op \in PowerOps \cup {"update_host_deployed_config"}
      /\ HostBefore.present
      /\ ~HostBefore.config_validated )
    => /\ result.exc = "Forbidden"
       /\ result.sent = NoTask
       /\ db = pre

(* The caller holds the permission and may edit the host: what refuses     *)
(* the write is the validation flag alone.                                 *)
C4_Witness ==
    /\ call.op = "update_host_deployed_config"
    /\ HostBefore.present
    /\ ~HostBefore.config_validated
    /\ PERMISSION_ADD_HOST_CONFIG \in Caller.perms
    /\ HostBefore.reinstall_os
    /\ Caller.id = HostBefore.creator_id
    /\ call.os_config # HostBefore.deployed_os_config
    /\ result.exc = "Forbidden"

(* C5: a power action on a validated host, by a caller who holds the       *)
(* deploy permission, sends exactly one task, named for the action, whose  *)
(* only argument is the host id, and changes nothing in the store.         *)
C5_PowerSendsOneTask ==
    ( /\ call.op \in PowerOps
      /\ PERMISSION_DEPLOY_HOST \in Caller.perms
      /\ HostBefore.present
      /\ HostBefore.config_validated )
    => /\ result.exc = "none"
       /\ result.sent = << Task(PowerTask(call.op), <<call.host_id>>) >>
       /\ db = pre

C5_Witness ==
    /\ call.op = "poweroff_host"
    /\ PERMISSION_DEPLOY_HOST \in Caller.perms
    /\ HostBefore.present
    /\ HostBefore.config_validated
    /\ Len(result.sent) = 1

(***************************************************************************)
(* Log histories.  The hosts are new hosts; no log history is kept yet.    *)
(***************************************************************************)
UpdatedLogFields == {NoKwargs} \cup { [position |-> p] : p \in Positions }

GetHostLogHistories ==
    \E user \in Users, host_id \in Hosts :
        Called([op |-> "get_host_log_histories", user |-> user.id,
                host_id |-> host_id],
               get_host_log_histories(db, user, host_id))

GetHostLogHistory ==
    \E user \in Users, host_id \in Hosts, filename \in Filenames :
        Called([op |-> "get_host_log_history", user |-> user.id,
                host_id |-> host_id, filename |-> filename],
               get_host_log_history(db, user, host_id, filename))

UpdateHostLogHistory ==
    \E user \in Users, host_id \in Hosts, filename \in Filenames, kwargs \in UpdatedLogFields :
        Called([op |-> "update_host_log_history", user |-> user.id,
                host_id |-> host_id, filename |-> filename,
                kwargs |-> kwargs],
               update_host_log_history(db, user, host_id, filename, kwargs))

AddHostLogHistory ==
    \E user \in Users, host_id \in Hosts, filename \in Filenames, exception_when_existing \in BOOLEAN, kwargs \in UpdatedLogFields :
        Called([op |-> "add_host_log_history", user |-> user.id,
                host_id |-> host_id, filename |-> filename,
                exception_when_existing |-> exception_when_existing,
                kwargs |-> kwargs],
               add_host_log_history(db, user, host_id,
                                    exception_when_existing, filename, kwargs))

InitLog ==
    /\ db = Db([h \in Hosts |-> Host("UNINITIALIZED", FALSE, TRUE, FALSE)])
    /\ pre = db
    /\ call = NoCall
    /\ result = NoResult

NextLog ==
    \/ GetHostLogHistories
    \/ GetHostLogHistory
    \/ UpdateHostLogHistory
    \/ AddHostLogHistory
    \/ Returned

SpecLog == InitLog /\ [][NextLog]_vars

(* C10: every operation of the host API checks a permission of the caller  *)
(* before its body runs: called by a user who holds no permission, it      *)
(* raises Forbidden and the store is as it was.                            *)
C10_PermissionChecked ==
    (call.op # "none" /\ Caller.perms = {})
    => /\ result.exc = "Forbidden"
       /\ db = pre

(***************************************************************************)
(* The last call is an add_host_log_history for a key that had a record.   *)
(***************************************************************************)
LogKey == <<call.host_id, call.filename>>

AddExisting ==
    /\ call.op = "add_host_log_history"
    /\ pre.log[LogKey].present

(* C12: add_db_object with key attributes that match an existing record    *)
(* raises DuplicatedRecord when exception_when_existing is true, and       *)
(* otherwise returns the record that existed with none of its attributes   *)
(* changed by the extra keyword attributes.                                *)
C12_AddExistingUnchanged ==
    AddExisting
    => IF call.exception_when_existing
       THEN result.exc = "DuplicatedRecord" /\ db = pre
       ELSE result.exc = "none" /\ db.log[LogKey] = pre.log[LogKey]

(***************************************************************************)
(* Argument-filter validation.  The field lists of host.py, lines 29-104,  *)
(* and, for some of the operations that utils.supported_filters wraps,     *)
(* the keys each declares and the named parameters of the function that    *)
(* get_wrapped_func finds under the decorators.                            *)
(***************************************************************************)
IGNORE_FIELDS == {"id", "created_at", "updated_at"}

UPDATED_FIELDS == {"host_id", "name", "reinstall_os"}

UPDATED_DEPLOYED_CONFIG_FIELDS == {"deployed_os_config"}

ADDED_NETWORK_FIELDS == {"interface", "ip", "subnet_id"}

OPTIONAL_ADDED_NETWORK_FIELDS == {"is_mgmt", "is_promiscuous"}

ADDED_LOG_FIELDS == {"filename"}

UPDATED_LOG_FIELDS == {"position", "partial_line", "percentage", "message", "severity", "line_matcher_name"}

Declared(support_keys, optional_support_keys, ignore_support_keys, wrapped_args) ==
    [ support_keys |-> support_keys,
      optional_support_keys |-> optional_support_keys,
      ignore_support_keys |-> ignore_support_keys,
      wrapped_args |-> wrapped_args ]

FilteredFuncs ==
    { "get_host", "get_machine_or_host", "_update_host", "del_host",
      "update_host_deployed_config",
      "_add_host_network", "add_host_log_history", "poweron_host" }

Filtered(func) ==
    CASE func = "get_host" ->
           Declared({}, {}, {},
                    {"host_id", "exception_when_missing", "user", "session"})
      [] func = "get_machine_or_host" ->
           Declared({}, {}, {},
                    {"host_id", "exception_when_missing", "user", "session"})
      [] func = "_update_host" ->
           Declared({}, UPDATED_FIELDS, IGNORE_FIELDS,
                    {"session", "user", "host_id"})
      [] func = "del_host" ->
           Declared({}, {}, {},
                    {"host_id", "force", "from_database_only", "user", "session"})
      [] func = "update_host_deployed_config" ->
           Declared(UPDATED_DEPLOYED_CONFIG_FIELDS, {}, IGNORE_FIELDS,
                    {"host_id", "user", "session"})
      [] func = "_add_host_network" ->
           Declared(ADDED_NETWORK_FIELDS, OPTIONAL_ADDED_NETWORK_FIELDS,
                    IGNORE_FIELDS,
                    {"session", "user", "host_id", "exception_when_existing",
                     "interface", "ip"})
      [] func = "add_host_log_history" ->
           Declared(ADDED_LOG_FIELDS, UPDATED_LOG_FIELDS, IGNORE_FIELDS,
                    {"host_id", "exception_when_existing", "filename",
                     "user", "session"})
      [] func = "poweron_host" ->
           Declared({}, {"poweron"}, {},
                    {"host_id", "poweron", "user", "session"})

(***************************************************************************)
(* utils.supported_filters, lines 347-385, on the set of keywords of a     *)
(* call: which exception the wrapper raises and the keys its message       *)
(* names, whether the wrapped function is called, and with which keywords. *)
(***************************************************************************)
supported_filters_by_declaration(declared, filters) ==
    LET must_support_keys == declared.support_keys
        all_support_keys == must_support_keys \cup declared.optional_support_keys
        unsupported_keys ==
            (filters \ all_support_keys) \ declared.ignore_support_keys
        missing_keys == must_support_keys \ filters
    IN  IF unsupported_keys # {}
        THEN [exc |-> "InvalidParameter", sent |-> NoTask,
              named |-> unsupported_keys, called |-> FALSE, filters |-> {}]
        ELSE IF missing_keys # {}
        THEN [exc |-> "InvalidParameter", sent |-> NoTask,
              named |-> missing_keys, called |-> FALSE, filters |-> {}]
        ELSE [exc |-> "none", sent |-> NoTask, named |-> {}, called |-> TRUE,
              filters |-> filters \ declared.ignore_support_keys]

supported_filters(declared, filters) ==
    LET wrapped_args == declared.wrapped_args
        must_support_keys == declared.support_keys
        all_support_keys == must_support_keys \cup declared.optional_support_keys
        filter_keys == filters \ wrapped_args
        wrapped_support_keys == filters \cup wrapped_args
        unsupported_keys ==
            (filter_keys \ all_support_keys) \ declared.ignore_support_keys
        missing_keys == must_support_keys \ wrapped_support_keys
    IN  IF unsupported_keys # {}
        THEN [exc |-> "InvalidParameter", sent |-> NoTask,
              named |-> unsupported_keys, called |-> FALSE, filters |-> {}]
        ELSE IF missing_keys # {}
        THEN [exc |-> "InvalidParameter", sent |-> NoTask,
              named |-> missing_keys, called |-> FALSE, filters |-> {}]
        ELSE [exc |-> "none", sent |-> NoTask, named |-> {}, called |-> TRUE,
              filters |-> filters \ declared.ignore_support_keys]

(***************************************************************************)
(* The keywords a caller may pass: keys the operation declares, named      *)
(* parameters of the function, and keys of other operations; at most       *)
(* MaxKeywords of them in one call.                                        *)
(***************************************************************************)
MaxKeywords == 3

UndeclaredKeys == {"mac", "tag"}

KeywordsOf(func) ==
    Filtered(func).support_keys \cup Filtered(func).optional_support_keys
        \cup Filtered(func).ignore_support_keys
        \cup Filtered(func).wrapped_args \cup UndeclaredKeys

Pick(S, n) == { T \in SUBSET S : Cardinality(T) <= n }

(***************************************************************************)
(* A pure function applied by a call: the store is not touched.            *)
(***************************************************************************)
Applied(c, r) ==
    /\ call = NoCall
    /\ db' = db
    /\ pre' = db
    /\ call' = c
    /\ result' = r

SupportedFilters ==
    \E func \in FilteredFuncs :
        \E filters \in Pick(KeywordsOf(func), MaxKeywords) :
            Applied([op |-> "supported_filters", func |-> func,
                     filters |-> filters],
                    supported_filters(Filtered(func), filters))

InitFilters == InitLog

NextFilters ==
    \/ SupportedFilters
    \/ Returned

SpecFilters == InitFilters /\ [][NextFilters]_vars

(***************************************************************************)
(* The keywords of the last call that the operation does not declare, and  *)
(* the required keys it does not pass.                                     *)
(***************************************************************************)
FiltersCall == call.op = "supported_filters"

DeclaredKeys ==
    Filtered(call.func).support_keys
        \cup Filtered(call.func).optional_support_keys
        \cup Filtered(call.func).ignore_support_keys

Undeclared == call.filters \ DeclaredKeys

Omitted == Filtered(call.func).support_keys \ call.filters

(* C13 as amended: a call with at least one keyword that is neither a      *)
(* named parameter of the wrapped function nor in the operation's          *)
(* required, optional or ignored sets raises InvalidParameter naming       *)
(* exactly those keywords, and the operation body is not run.              *)
C13_UnsupportedKeysRejected ==
    (FiltersCall /\ Undeclared \ Filtered(call.func).wrapped_args # {})
    => /\ result.exc = "InvalidParameter"
       /\ result.named = Undeclared \ Filtered(call.func).wrapped_args
       /\ ~result.called

(* C13 as claimed: a call with at least one keyword that is in none of     *)
(* the operation's required, optional or ignored sets raises               *)
(* InvalidParameter naming exactly those keywords, and the body is not     *)
(* run.                                                                    *)
C13_UndeclaredKeysRejected ==
    (FiltersCall /\ Undeclared # {})
    => /\ result.exc = "InvalidParameter"
       /\ result.named = Undeclared
       /\ ~result.called

(* Two undeclared keys and a named parameter were passed: the two are      *)
(* named, the parameter is not.                                            *)
C13_Witness ==
    /\ FiltersCall
    /\ Cardinality(Undeclared \ Filtered(call.func).wrapped_args) = 2
    /\ Undeclared \cap Filtered(call.func).wrapped_args # {}
    /\ result.exc = "InvalidParameter"
    /\ result.named = UndeclaredKeys

(* C14: a call that omits one or more declared-required keys and passes    *)
(* no unsupported key raises InvalidParameter naming exactly the omitted   *)
(* required keys, for required keys that are also named parameters of the  *)
(* wrapped function (interface and ip of _add_host_network) as for the     *)
(* others.                                                                 *)
C14_MissingKeysRejected ==
    ( /\ FiltersCall
      /\ Omitted # {}
      /\ Undeclared \ Filtered(call.func).wrapped_args = {} )
    => /\ result.exc = "InvalidParameter"
       /\ result.named = Omitted

(***************************************************************************)
(* Response projection.  The values a response is made of: None, numbers,  *)
(* dictionaries, lists, and db objects (models.HelperMixin), which         *)
(* to_dict() turns into the dictionary of their attributes.                *)
(***************************************************************************)
None == [type |-> "none"]

Number(v) == [type |-> "number", v |-> v]

Dict(items) == [type |-> "dict", items |-> items]

List(items) == [type |-> "list", items |-> items]

Object(items) == [type |-> "object", items |-> items]

to_dict(data) == Dict(data.items)

(***************************************************************************)
(* The support_keys and **filters of a wrap_to_dict: filters[key] is a     *)
(* list of keys, or a dictionary whose keys are the keys to keep and       *)
(* whose values are the filters below them.                                *)
(***************************************************************************)
KeyList(keys) == [keys |-> keys, filters |-> [key \in {} |-> TRUE]]

InvalidResponse == [exc |-> "InvalidResponse", value |-> None]

Projected(value) == [exc |-> "none", value |-> value]

(***************************************************************************)
(* utils._wrapper_dict, lines 281-314.                                     *)
(***************************************************************************)
_wrapper_dict_top_level_only(data, support_keys, filters) ==
    LET d == IF data.type = "object" THEN to_dict(data) ELSE data
    IN  IF d.type # "dict"
        THEN InvalidResponse
        ELSE Projected(Dict([key \in support_keys \cap DOMAIN d.items |->
                                 d.items[key]]))

RECURSIVE _wrapper_dict(_, _, _)
_wrapper_dict(data, support_keys, filters) ==
    IF data.type = "list"
    THEN LET items == [i \in DOMAIN data.items |->
                          _wrapper_dict(data.items[i], support_keys, filters)]
         IN  IF \E i \in DOMAIN items : items[i].exc # "none"
             THEN InvalidResponse
             ELSE Projected(List([i \in DOMAIN items |-> items[i].value]))
    ELSE
    LET d == IF data.type = "object" THEN to_dict(data) ELSE data
    IN  IF d.type # "dict"
        THEN InvalidResponse
        ELSE LET keys == support_keys \cap DOMAIN d.items
                 info == [key \in keys |->
                             IF key \in DOMAIN filters
                             THEN _wrapper_dict(d.items[key],
                                                filters[key].keys,
                                                filters[key].filters)
                             ELSE Projected(d.items[key])]
             IN  IF \E key \in keys : info[key].exc # "none"
                 THEN InvalidResponse
                 ELSE Projected(Dict([key \in keys |-> info[key].value]))

(***************************************************************************)
(* Responses to project: a host-like record with an id and its networks,   *)
(* the networks being absent, None, a number, one network record, or a     *)
(* list of network records; and values that are not records.               *)
(***************************************************************************)
MaxValue == 1

MaxItems == 1

Numbers == { Number(v) : v \in 0..MaxValue }

NetworkKeys == {"id", "ip"}

Records(keys, values) ==
    UNION { { Dict(items) : items \in [domain -> values] } : domain \in SUBSET keys }

Lists(values, n) ==
    UNION { { List(items) : items \in [1..len -> values] } : len \in 0..n }

NetworkRecords == Records(NetworkKeys, Numbers)

NetworksValues ==
    {None} \cup {Number(0)} \cup NetworkRecords
        \cup Lists(NetworkRecords, MaxItems)

HostRecords ==
    { Dict(items) :
        items \in UNION {
            [{"id"} -> Numbers],
            [{"networks"} -> NetworksValues],
            { [key \in {"id", "networks"} |->
                  IF key = "id" THEN id ELSE networks] :
                id \in Numbers, networks \in NetworksValues } } }

Responses ==
    HostRecords \cup { Object(d.items) : d \in NetworkRecords }
        \cup {None, Number(0), List(<< >>)}

SupportKeys == SUBSET {"id", "networks"}

NetworksFilters ==
    { [key \in {} |-> TRUE] }
        \cup { [key \in {"networks"} |-> KeyList(keys)] :
                 keys \in SUBSET NetworkKeys }

WrapToDict ==
    \E data \in Responses, support_keys \in SupportKeys, filters \in NetworksFilters :
        Applied([op |-> "wrap_to_dict", data |-> data,
                 support_keys |-> support_keys, filters |-> filters],
                [exc |-> _wrapper_dict(data, support_keys, filters).exc,
                 sent |-> NoTask,
                 value |-> _wrapper_dict(data, support_keys, filters).value])

InitProject == InitLog

NextProject ==
    \/ WrapToDict
    \/ Returned

SpecProject == InitProject /\ [][NextProject]_vars

(***************************************************************************)
(* The keys a projected value carries are in the allow-list, and below a   *)
(* key that has a sub-filter in the keys of that sub-filter.               *)
(***************************************************************************)
RECURSIVE OnlyAllowed(_, _, _)
OnlyAllowed(value, support_keys, filters) ==
    IF value.type = "list"
    THEN \A i \in DOMAIN value.items :
             OnlyAllowed(value.items[i], support_keys, filters)
    ELSE /\ value.type = "dict"
         /\ DOMAIN value.items \subseteq support_keys
         /\ \A key \in DOMAIN value.items \cap DOMAIN filters :
                OnlyAllowed(value.items[key], filters[key].keys,
                            filters[key].filters)

(* C16: what wrap_to_dict returns for an allow-list and nested sub-filters *)
(* only has keys of the allow-list, nested records under a sub-filter      *)
(* only keys of their sub-list, and projecting the result again with the   *)
(* same allow-list and sub-filters returns an equal result.                *)
C16_ProjectionIdempotent ==
    (call.op = "wrap_to_dict" /\ result.exc = "none")
    => /\ OnlyAllowed(result.value, call.support_keys, call.filters)
       /\ _wrapper_dict(result.value, call.support_keys, call.filters)
              = Projected(result.value)

(* A record with a list of one network that carries a key outside the     *)
(* sub-list was projected: the key is gone, the rest is kept.              *)
C16_Witness ==
    /\ call.op = "wrap_to_dict"
    /\ result.exc = "none"
    /\ call.data.type = "dict"
    /\ call.support_keys = {"id", "networks"}
    /\ "networks" \in DOMAIN call.filters
    /\ call.filters["networks"].keys = {"id"}
    /\ "networks" \in DOMAIN call.data.items
    /\ call.data.items["networks"].type = "list"
    /\ Len(call.data.items["networks"].items) = 1
    /\ DOMAIN call.data.items["networks"].items[1].items = {"id", "ip"}
    /\ DOMAIN result.value.items["networks"].items[1].items = {"id"}

(***************************************************************************)
(* The request pipeline, one decorator at a time.  Decorators(op) is the   *)
(* stack above an operation of host.py, outermost first; an operation      *)
(* that hands its arguments straight to a decorated helper (update_host    *)
(* to _update_host) has the helper's stack below its own.                  *)
(***************************************************************************)
PipelineOps ==
    { "get_host", "get_machine_or_host", "update_host",
      "update_host_deployed_config", "add_host_log_history" }

Decorators(op) ==
    CASE op = "get_host" ->
           << "supported_filters", "run_in_session",
              "check_user_permission_in_session", "wrap_to_dict" >>
      [] op = "get_machine_or_host" ->
           << "supported_filters", "run_in_session",
              "check_user_permission_in_session", "wrap_to_dict" >>
      [] op = "update_host" ->
           << "run_in_session", "check_user_permission_in_session" >>
               \o << "supported_filters", "input_validates", "wrap_to_dict" >>
      [] op = "update_host_deployed_config" ->
           << "replace_filters", "supported_filters", "run_in_session",
              "check_user_permission_in_session", "wrap_to_dict" >>
      [] op = "add_host_log_history" ->
           << "supported_filters", "run_in_session", "wrap_to_dict" >>

(***************************************************************************)
(* A wrapper works before it calls the function below it (the filters,     *)
(* the validators, the permission check, the opening of the session) or    *)
(* after that function returned (the projection, the commit).  Stages(op)  *)
(* is the order in which a call that raises nothing goes through them.     *)
(***************************************************************************)
WorksBefore(decorator) ==
    decorator \in { "replace_filters", "supported_filters", "input_validates",
                    "run_in_session", "check_user_permission_in_session" }

WorksAfter(decorator) == decorator \in { "run_in_session", "wrap_to_dict" }

Reverse(s) == [i \in 1..Len(s) |-> s[Len(s) + 1 - i]]

Stages(op) ==
    LET after == Reverse(SelectSeq(Decorators(op), WorksAfter))
    IN  SelectSeq(Decorators(op), WorksBefore)
            \o << "body" >>
            \o [i \in 1..Len(after) |->
                   IF after[i] = "run_in_session" THEN "commit" ELSE after[i]]

Permission(op) ==
    CASE op \in {"get_host", "get_machine_or_host"} -> PERMISSION_LIST_HOSTS
      [] op = "update_host" -> PERMISSION_UPDATE_HOST
      [] op = "update_host_deployed_config" -> PERMISSION_ADD_HOST_CONFIG

FilteredFunc(op) == IF op = "update_host" THEN "_update_host" ELSE op

(***************************************************************************)
(* utils.replace_filters, lines 333-344: keywords renamed by the mapping.  *)
(***************************************************************************)
replace_filters(filter_mapping, filters) ==
    LET replaced(key) ==
            IF key \in DOMAIN filter_mapping THEN filter_mapping[key] ELSE key
    IN  [ key \in { replaced(k) : k \in DOMAIN filters } |->
            filters[CHOOSE k \in DOMAIN filters : replaced(k) = key] ]

(***************************************************************************)
(* utils.check_name, lines 720-729: NAME_PATTERN.match wants a letter or   *)
(* a digit first.  Names are sequences of characters.                      *)
(***************************************************************************)
AlphaNumeric == {"h", "1"}

check_name(name) == Len(name) > 0 /\ name[1] \in AlphaNumeric

HostNames == { <<"h", "1">>, <<"_", "h">> }

(***************************************************************************)
(* The response fields of host.py, lines 29-59 and 94-97, and the          *)
(* objects the bodies return, with the attributes to_dict() gives them.    *)
(***************************************************************************)
RESP_FIELDS ==
    { "id", "name", "hostname", "os_name", "os_id", "owner", "mac",
      "switch_ip", "port", "switches", "os_installer", "ip", "reinstall_os",
      "os_installed", "tag", "location", "networks", "created_at",
      "updated_at" }

RESP_CONFIG_FIELDS ==
    { "os_config", "config_setp", "config_validated", "networks",
      "created_at", "updated_at" }

RESP_LOG_FIELDS ==
    { "id", "filename", "position", "partial_line", "percentage", "message",
      "severity", "line_matcher_name" }

RespFields(op) ==
    CASE op \in {"get_host", "get_machine_or_host", "update_host"} -> RESP_FIELDS
      [] op = "update_host_deployed_config" -> RESP_CONFIG_FIELDS
      [] op = "add_host_log_history" -> RESP_LOG_FIELDS

HostObject(d, host_id) ==
    Object([ id |-> host_id,
             reinstall_os |-> d.host[host_id].reinstall_os,
             config_validated |-> d.host[host_id].config_validated,
             deployed_os_config |-> d.host[host_id].deployed_os_config ])

MachineObject(machine_id) == Object([id |-> machine_id])

LogObject(d, host_id, filename) ==
    Object([ id |-> host_id, filename |-> filename,
             position |-> d.log[<<host_id, filename>>].position ])

(***************************************************************************)
(* get_host, lines 149-163, and get_machine_or_host, lines 166-187: the    *)
(* bodies under the decorators.  A machine's host is the host of the same  *)
(* id.                                                                     *)
(***************************************************************************)
Returns(r, value) ==
    [db |-> r.db, exc |-> r.exc, sent |-> r.sent, value |-> value]

get_host_body(d, host_id, exception_when_missing) ==
    IF get_db_object(d.host, host_id)
    THEN Returns(Return(d, NoTask), HostObject(d, host_id))
    ELSE IF ~exception_when_missing
    THEN Returns(Return(d, NoTask), None)
    ELSE Returns(Raise(d, "RecordNotExists", NoTask), None)

get_machine_or_host_body(d, host_id, exception_when_missing) ==
    IF get_db_object(d.machine, host_id)
    THEN IF d.host[host_id].present
         THEN Returns(Return(d, NoTask), HostObject(d, host_id))
         ELSE Returns(Return(d, NoTask), MachineObject(host_id))
    ELSE IF ~exception_when_missing
    THEN Returns(Return(d, NoTask), None)
    ELSE Returns(Raise(d, "RecordNotExists", NoTask), None)

Body(d, c) ==
    CASE c.op = "get_host" ->
           get_host_body(d, c.host_id, c.exception_when_missing)
      [] c.op = "get_machine_or_host" ->
           get_machine_or_host_body(d, c.host_id, c.exception_when_missing)
      [] c.op = "update_host" ->
           Returns(_update_host(d, User(c.user), c.host_id, c.kwargs),
                   HostObject(_update_host(d, User(c.user), c.host_id,
                                           c.kwargs).db,
                              c.host_id))
      [] c.op = "update_host_deployed_config" ->
           Returns(update_host_deployed_config_body(
                       d, User(c.user), c.host_id, c.kwargs),
                   HostObject(update_host_deployed_config_body(
                                  d, User(c.user), c.host_id, c.kwargs).db,
                              c.host_id))
      [] c.op = "add_host_log_history" ->
           Returns(add_host_log_history_body(
                       d, User(c.user), c.host_id, c.exception_when_existing,
                       c.filename, c.kwargs),
                   LogObject(add_host_log_history_body(
                                 d, User(c.user), c.host_id,
                                 c.exception_when_existing, c.filename,
                                 c.kwargs).db,
                             c.host_id, c.filename))

(***************************************************************************)
(* A call in the pipeline.  call says what was called: the keywords that   *)
(* are named parameters, the other keywords with their values, and         *)
(* keywords the operation does not know.  result.stages lists the stages   *)
(* the call has been through; db holds the writes of its session, pre the  *)
(* store as it was committed.  An exception goes up through every wrapper  *)
(* at once, the session rolling back on the way.                           *)
(***************************************************************************)
ExtraKeywords == { {}, {"mac"} }

Keywords(c) == c.named \cup DOMAIN c.kwargs \cup c.extra

Invoked(c) ==
    /\ call = NoCall
    /\ call' = c
    /\ result' = [exc |-> "none", sent |-> NoTask, stages |-> << >>,
                  value |-> None, named |-> {}]
    /\ pre' = db
    /\ db' = db

At(stage) ==
    /\ call.op \in PipelineOps
    /\ result.exc = "none"
    /\ Len(result.stages) < Len(Stages(call.op))
    /\ Stages(call.op)[Len(result.stages) + 1] = stage

Done ==
    /\ call.op \in PipelineOps
    /\ result.exc # "none" \/ Len(result.stages) = Len(Stages(call.op))

Passed(stage) ==
    /\ result' = [result EXCEPT !.stages = Append(@, stage)]
    /\ UNCHANGED <<db, pre>>

Raised(stage, exc, named) ==
    /\ result' = [result EXCEPT !.stages = Append(@, stage),
                                !.exc = exc, !.named = named]
    /\ db' = run_in_session(pre, Raise(db, exc, result.sent)).db
    /\ UNCHANGED pre

CallGetHost ==
    \E user \in Users, host_id \in Hosts, exception_when_missing \in BOOLEAN, extra \in ExtraKeywords :
        Invoked([op |-> "get_host", user |-> user.id, host_id |-> host_id,
                 exception_when_missing |-> exception_when_missing,
                 named |-> {"host_id", "exception_when_missing", "user"},
                 kwargs |-> NoKwargs, extra |-> extra])

CallGetMachineOrHost ==
    \E user \in Users, host_id \in Hosts, exception_when_missing \in BOOLEAN, extra \in ExtraKeywords :
        Invoked([op |-> "get_machine_or_host", user |-> user.id,
                 host_id |-> host_id,
                 exception_when_missing |-> exception_when_missing,
                 named |-> {"host_id", "exception_when_missing", "user"},
                 kwargs |-> NoKwargs, extra |-> extra])

CallUpdateHost ==
    \E user \in Users, host_id \in Hosts, extra \in ExtraKeywords :
        \E kwargs \in {NoKwargs, [reinstall_os |-> TRUE]}
                          \cup { [name |-> name] : name \in HostNames } :
            Invoked([op |-> "update_host", user |-> user.id,
                     host_id |-> host_id, named |-> {"host_id"},
                     kwargs |-> kwargs, extra |-> extra])

CallUpdateHostDeployedConfig ==
    \E user \in Users, host_id \in Hosts, extra \in ExtraKeywords :
        \E kwargs \in {NoKwargs} \cup { [os_config |-> c] : c \in Configs } :
            Invoked([op |-> "update_host_deployed_config", user |-> user.id,
                     host_id |-> host_id, named |-> {"host_id", "user"},
                     kwargs |-> kwargs, extra |-> extra])

CallAddHostLogHistory ==
    \E user \in Users, host_id \in Hosts, filename \in Filenames, extra \in ExtraKeywords :
        \E exception_when_existing \in BOOLEAN :
            Invoked([op |-> "add_host_log_history", user |-> user.id,
                     host_id |-> host_id, filename |-> filename,
                     exception_when_existing |-> exception_when_existing,
                     named |-> {"host_id", "filename",
                                "exception_when_existing", "user"},
                     kwargs |-> NoKwargs, extra |-> extra])

EnterReplaceFilters ==
    /\ At("replace_filters")
    /\ call' = [call EXCEPT !.kwargs =
                   replace_filters([os_config |-> "deployed_os_config"], @)]
    /\ Passed("replace_filters")

EnterSupportedFilters ==
    /\ At("supported_filters")
    /\ LET filtered == supported_filters(Filtered(FilteredFunc(call.op)),
                                         Keywords(call))
       IN  IF filtered.exc # "none"
           THEN Raised("supported_filters", filtered.exc, filtered.named)
           ELSE Passed("supported_filters")
    /\ UNCHANGED call

EnterInputValidates ==
    /\ At("input_validates")
    /\ IF "name" \in DOMAIN call.kwargs /\ ~check_name(call.kwargs["name"])
       THEN Raised("input_validates", "InvalidParameter", {"name"})
       ELSE Passed("input_validates")
    /\ UNCHANGED call

EnterRunInSession ==
    /\ At("run_in_session")
    /\ result' = [result EXCEPT !.stages = Append(@, "run_in_session")]
    /\ pre' = db
    /\ UNCHANGED <<db, call>>

EnterCheckUserPermission ==
    /\ At("check_user_permission_in_session")
    /\ LET checked == check_user_permission_in_session(
                          User(call.user), Permission(call.op), db,
                          Return(db, NoTask))
       IN  IF checked.exc # "none"
           THEN Raised("check_user_permission_in_session", checked.exc, {})
           ELSE Passed("check_user_permission_in_session")
    /\ UNCHANGED call

RunBody ==
    /\ At("body")
    /\ LET r == Body(db, call)
       IN  /\ result' = [result EXCEPT !.stages = Append(@, "body"),
                                       !.exc = r.exc,
                                       !.sent = r.sent,
                                       !.value = r.value]
           /\ db' = run_in_session(pre, r).db
    /\ UNCHANGED <<pre, call>>

LeaveWrapToDict ==
    /\ At("wrap_to_dict")
    /\ LET wrapped == _wrapper_dict(result.value, RespFields(call.op),
                                    [key \in {} |-> TRUE])
       IN  IF wrapped.exc # "none"
           THEN Raised("wrap_to_dict", wrapped.exc, {})
           ELSE /\ result' = [result EXCEPT
                                 !.stages = Append(@, "wrap_to_dict"),
                                 !.value = wrapped.value]
                /\ UNCHANGED <<db, pre>>
    /\ UNCHANGED call

LeaveRunInSession ==
    /\ At("commit")
    /\ result' = [result EXCEPT !.stages = Append(@, "commit")]
    /\ pre' = db
    /\ UNCHANGED <<db, call>>

PipelineReturned ==
    /\ Done
    /\ db' = db
    /\ pre' = db
    /\ call' = NoCall
    /\ result' = NoResult

(***************************************************************************)
(* The store the calls start from: every id below the last has a machine   *)
(* and a host; the last id has no host, and has a machine or not.          *)
(***************************************************************************)
InitPipeline ==
    /\ \E last_machine \in BOOLEAN :
           db = [ machine |->
                      [ h \in Hosts |->
                          [present |-> (h < NumHosts \/ last_machine)] ] ]
                  @@ Db([ h \in Hosts |->
                            [ Host("UNINITIALIZED", FALSE, TRUE, FALSE)
                                EXCEPT !.present = (h < NumHosts) ] ])
    /\ pre = db
    /\ call = NoCall
    /\ result = NoResult

NextPipeline ==
    \/ CallGetHost
    \/ CallGetMachineOrHost
    \/ CallUpdateHost
    \/ CallUpdateHostDeployedConfig
    \/ CallAddHostLogHistory
    \/ EnterReplaceFilters
    \/ EnterSupportedFilters
    \/ EnterInputValidates
    \/ EnterRunInSession
    \/ EnterCheckUserPermission
    \/ RunBody
    \/ LeaveWrapToDict
    \/ LeaveRunInSession
    \/ PipelineReturned

SpecPipeline == InitPipeline /\ [][NextPipeline]_vars

(***************************************************************************)
(* The place of a stage in the order claimed for the pipeline; the stages  *)
(* the claim does not list have none.                                      *)
(***************************************************************************)
ClaimedOrder ==
    << "supported_filters", "check_user_permission_in_session",
       "run_in_session", "body", "output_validates", "wrap_to_dict" >>

Listed(stage) == \E i \in 1..Len(ClaimedOrder) : ClaimedOrder[i] = stage

Place(stage) == CHOOSE i \in 1..Len(ClaimedOrder) : ClaimedOrder[i] = stage

(* C11: the stages a pipeline-wrapped operation opts into run in the       *)
(* fixed order argument-filter validation, permission check, opening of    *)
(* the transactional scope, operation body, output validation,             *)
(* projection: no call goes through two of them in another order.          *)
C11_StagesInClaimedOrder ==
    call.op \in PipelineOps
    => \A i, j \in 1..Len(result.stages) :
           (i < j /\ Listed(result.stages[i]) /\ Listed(result.stages[j]))
           => Place(result.stages[i]) <= Place(result.stages[j])

(* C15: get_host and get_machine_or_host for an id that matches no         *)
(* record, by a caller who may list hosts, return null without raising     *)
(* when exception_when_missing is false and raise RecordNotExists when it  *)
(* is true.                                                                *)
C15_MissingReturnsNull ==
    ( /\ call.op \in {"get_host", "get_machine_or_host"}
      /\ Done
      /\ call.extra = {}
      /\ PERMISSION_LIST_HOSTS \in Caller.perms
      /\ IF call.op = "get_host"
         THEN ~pre.host[call.host_id].present
         ELSE ~pre.machine[call.host_id].present )
    => IF call.exception_when_missing
       THEN result.exc = "RecordNotExists"
       ELSE result.exc = "none" /\ result.value = None

(***************************************************************************)
(* host.validate_host, lines 247-273: the exception it raises, "none"      *)
(* when it returns, and what the message says.  The first test raises      *)
(* exception.Invalidparameter, a name compass.db.exception does not have   *)
(* (InvalidParameter is the class the other tests raise): looking it up    *)
(* raises AttributeError.                                                  *)
(***************************************************************************)
Invalid(exc, message) == [exc |-> exc, sent |-> NoTask, message |-> message]

Valid == [exc |-> "none", sent |-> NoTask, message |-> "none"]

validate_host_networks_promiscuous_mgmt(host_networks, mgmt_interface_set) ==
    IF \E i \in DOMAIN host_networks, j \in DOMAIN host_networks :
           i # j /\ host_networks[i].is_mgmt /\ host_networks[j].is_mgmt
    THEN Invalid("InvalidParameter", "multi interfaces set mgmt")
    ELSE IF \A i \in DOMAIN host_networks : ~host_networks[i].is_mgmt
    THEN Invalid("InvalidParameter", "has no mgmt interface")
    ELSE Valid

RECURSIVE validate_host_networks(_, _)
validate_host_networks(host_networks, mgmt_interface_set) ==
    IF host_networks = << >>
    THEN IF ~mgmt_interface_set
         THEN Invalid("InvalidParameter", "has no mgmt interface")
         ELSE Valid
    ELSE LET host_network == Head(host_networks)
         IN  IF host_network.is_mgmt
             THEN IF mgmt_interface_set
                  THEN Invalid("InvalidParameter", "multi interfaces set mgmt")
                  ELSE IF host_network.is_promiscuous
                  THEN Invalid("InvalidParameter", "is mgmt but promiscuous")
                  ELSE validate_host_networks(Tail(host_networks), TRUE)
             ELSE validate_host_networks(Tail(host_networks),
                                         mgmt_interface_set)

validate_host(host) ==
    IF Len(host.hostname) = 0
    THEN Invalid("AttributeError", "Invalidparameter")
    ELSE IF Len(host.host_networks) = 0
    THEN Invalid("InvalidParameter", "does not have any network")
    ELSE validate_host_networks(host.host_networks, FALSE)

(***************************************************************************)
(* Hosts to validate: with or without a hostname, with up to MaxNetworks   *)
(* interfaces, each management or not, promiscuous or not.                 *)
(***************************************************************************)
MaxNetworks == 3

HostNetworks == [is_mgmt : BOOLEAN, is_promiscuous : BOOLEAN]

ValidatedHosts ==
    [ hostname : { << >>, <<"h", "1">> },
      host_networks : UNION { [1..n -> HostNetworks] : n \in 0..MaxNetworks } ]

ValidateHost ==
    \E host \in ValidatedHosts :
        Applied([op |-> "validate_host", host |-> host], validate_host(host))

InitValidate == InitLog

NextValidate ==
    \/ ValidateHost
    \/ Returned

SpecValidate == InitValidate /\ [][NextValidate]_vars

(***************************************************************************)
(* The interfaces of the host of the last call that are flagged            *)
(* management, and whether the structure of its interfaces is one the      *)
(* rule refuses.                                                           *)
(***************************************************************************)
MgmtInterfaces ==
    { i \in DOMAIN call.host.host_networks : call.host.host_networks[i].is_mgmt }

BadInterfaces ==
    \/ Len(call.host.host_networks) = 0
    \/ Cardinality(MgmtInterfaces) >= 2
    \/ \E i \in MgmtInterfaces : call.host.host_networks[i].is_promiscuous
    \/ MgmtInterfaces = {}

(* C17: validate_host rejects a host with no network interface, a host     *)
(* with two or more management interfaces, a host whose management         *)
(* interface is also promiscuous and a host with no management interface,  *)
(* with InvalidParameter when the host has a hostname; it accepts a host   *)
(* with a hostname, exactly one management interface that is not           *)
(* promiscuous, and any number of other interfaces.                        *)
C17_InterfaceRule ==
    call.op = "validate_host"
    => /\ BadInterfaces => result.exc # "none"
       /\ (BadInterfaces /\ Len(call.host.hostname) > 0)
              => result.exc = "InvalidParameter"
       /\ (~BadInterfaces /\ Len(call.host.hostname) > 0)
              => result.exc = "none"

(* A host with a hostname whose one management interface, after another    *)
(* interface, is promiscuous was refused.                                  *)
C17_Witness ==
    /\ call.op = "validate_host"
    /\ Len(call.host.hostname) > 0
    /\ Len(call.host.host_networks) = 2
    /\ MgmtInterfaces = {2}
    /\ call.host.host_networks[2].is_promiscuous
    /\ result.exc = "InvalidParameter"
    /\ result.message = "is mgmt but promiscuous"

(* C18: validate_host on a host with no hostname raises InvalidParameter,  *)
(* the kind it raises for its other structural violations.                 *)
C18_NoHostnameInvalidParameter ==
    (call.op = "validate_host" /\ Len(call.host.hostname) = 0)
    => result.exc = "InvalidParameter"

(***************************************************************************)
(* The filter compiler.  A filter value is a number, None, a list or a     *)
(* dictionary from operators to values.  What _model_condition returns is  *)
(* kept as a term: no condition (None), one comparison of the column with  *)
(* its data, an or_ or and_ of conditions, or the exception raised while   *)
(* building it.                                                            *)
(***************************************************************************)
NoCondition == [kind |-> "none"]

Condition(kind, data) == [kind |-> kind, data |-> data]

Compound(kind, conditions) == [kind |-> kind, conditions |-> conditions]

CompileError(exc) == [kind |-> "raise", exc |-> exc]

IsCondition(condition) == condition.kind \notin {"none", "raise"}

Combined(kind, conditions) ==
    IF \E i \in DOMAIN conditions : conditions[i].kind = "raise"
    THEN conditions[CHOOSE i \in DOMAIN conditions :
                        /\ conditions[i].kind = "raise"
                        /\ \A j \in 1..(i - 1) : conditions[j].kind # "raise"]
    ELSE LET kept == SelectSeq(conditions, IsCondition)
         IN  IF Len(kept) = 0 THEN NoCondition
             ELSE IF Len(kept) = 1 THEN kept[1]
             ELSE Compound(kind, kept)

(***************************************************************************)
(* utils._between_condition, lines 76-83: value[0] and value[1] of a       *)
(* value that is a number or None raise TypeError, of a list that is too   *)
(* short IndexError.                                                       *)
(***************************************************************************)
_between_condition(value) ==
    IF value.type # "list"
    THEN CompileError("TypeError")
    ELSE IF Len(value.items) < 2
    THEN CompileError("IndexError")
    ELSE IF value.items[1].type # "none" /\ value.items[2].type # "none"
    THEN Condition("between", List(SubSeq(value.items, 1, 2)))
    ELSE IF value.items[1].type # "none"
    THEN Condition("ge", value.items[1])
    ELSE IF value.items[2].type # "none"
    THEN Condition("le", value.items[2])
    ELSE NoCondition

(***************************************************************************)
(* The item_condition_func and list_condition_func that _model_condition   *)
(* hands to _model_condition_func for each operator, lines 134-192, with   *)
(* _default_list_condition_func and _one_item_list_condition_func, lines   *)
(* 39-56.  The like operators are left out.                                *)
(***************************************************************************)
item_condition_func(operator, data) ==
    IF operator = "between" THEN _between_condition(data)
    ELSE Condition(operator, data)

list_condition_func(operator, value) ==
    CASE operator = "eq" -> Condition("in", value)
      [] operator = "ne" -> Condition("notin", value)
      [] operator \in {"lt", "gt", "le", "ge"} ->
           item_condition_func(operator, value.items[1])
      [] operator = "between" ->
           LET conditions ==
                   [ i \in DOMAIN value.items |->
                       item_condition_func(operator, value.items[i]) ]
               combined == Combined("or_", conditions)
           IN  IF IsCondition(combined) /\ combined.kind # "or_"
               THEN Compound("or_", << combined >>)
               ELSE combined

(***************************************************************************)
(* utils._model_condition_func, lines 59-73.                               *)
(***************************************************************************)
_model_condition_func(operator, value) ==
    IF value.type = "list"
    THEN IF Len(value.items) = 0 THEN NoCondition
         ELSE IF Len(value.items) = 1
         THEN item_condition_func(operator, value)
         ELSE list_condition_func(operator, value)
    ELSE item_condition_func(operator, value)

(***************************************************************************)
(* utils._model_condition, lines 109-208.                                  *)
(***************************************************************************)
Operators == << "eq", "lt", "gt", "le", "ge", "ne", "in", "notin", "between" >>

IsComposite(item) == item.type \in {"list", "dict"}

IsBasetype(item) == ~IsComposite(item)

RECURSIVE _model_condition(_)
_model_condition(value) ==
    IF value.type = "list"
    THEN LET basetype_values == SelectSeq(value.items, IsBasetype)
             composite_values == SelectSeq(value.items, IsComposite)
             basetype_conditions ==
                 IF Len(basetype_values) = 0 THEN << >>
                 ELSE IF Len(basetype_values) = 1
                 THEN << Condition("eq", basetype_values[1]) >>
                 ELSE << Condition("in", List(basetype_values)) >>
         IN  Combined("or_",
                      basetype_conditions
                          \o [ i \in DOMAIN composite_values |->
                                 _model_condition(composite_values[i]) ])
    ELSE IF value.type = "dict"
    THEN LET given(operator) == operator \in DOMAIN value.items
             compiled(operator) ==
                 IF operator \in {"in", "notin"}
                 THEN Condition(operator, value.items[operator])
                 ELSE _model_condition_func(operator, value.items[operator])
             operators == SelectSeq(Operators, given)
         IN  Combined("and_",
                      [ i \in DOMAIN operators |-> compiled(operators[i]) ])
    ELSE Condition("eq", value)

(***************************************************************************)
(* What the storage engine makes of a condition for a record whose column  *)
(* holds the number x: "match", "nomatch", or "error".  A comparison with  *)
(* NULL matches nothing; a list bound where one value is expected is       *)
(* refused or matches nothing, as the engine has it (bound_list).          *)
(***************************************************************************)
Truth(b) == IF b THEN "match" ELSE "nomatch"

RECURSIVE Evaluate(_, _, _)
Evaluate(condition, x, bound_list) ==
    CASE condition.kind = "none" -> "match"
      [] condition.kind \in {"or_", "and_"} ->
           LET parts == { Evaluate(condition.conditions[i], x, bound_list) :
                            i \in DOMAIN condition.conditions }
           IN  IF "error" \in parts THEN "error"
               ELSE IF condition.kind = "or_" THEN Truth("match" \in parts)
               ELSE Truth("nomatch" \notin parts)
      [] condition.kind \in {"in", "notin"} ->
           LET numbers == { condition.data.items[i].v :
                              i \in { j \in DOMAIN condition.data.items :
                                        condition.data.items[j].type = "number" } }
           IN  IF condition.kind = "in" THEN Truth(x.v \in numbers)
               ELSE Truth(/\ x.v \notin numbers
                          /\ \A j \in DOMAIN condition.data.items :
                                 condition.data.items[j].type = "number")
      [] condition.kind = "between" ->
           Truth(/\ condition.data.items[1].v <= x.v
                 /\ x.v <= condition.data.items[2].v)
      [] OTHER ->
           IF condition.data.type = "list" THEN bound_list
           ELSE IF condition.data.type = "none" THEN Truth(condition.kind = "ne")
           ELSE CASE condition.kind = "eq" -> Truth(x.v = condition.data.v)
                  [] condition.kind = "ne" -> Truth(x.v # condition.data.v)
                  [] condition.kind = "lt" -> Truth(x.v < condition.data.v)
                  [] condition.kind = "gt" -> Truth(x.v > condition.data.v)
                  [] condition.kind = "le" -> Truth(x.v <= condition.data.v)
                  [] condition.kind = "ge" -> Truth(x.v >= condition.data.v)

Filtered_by(value, x, bound_list) ==
    LET condition == _model_condition(value)
    IN  IF condition.kind = "raise"
        THEN [exc |-> condition.exc, sent |-> NoTask,
              condition |-> condition, outcome |-> "error"]
        ELSE [exc |-> "none", sent |-> NoTask, condition |-> condition,
              outcome |-> Evaluate(condition, x, bound_list)]

(***************************************************************************)
(* The filter values tried: numbers up to MaxOperand, lists of at most two *)
(* numbers or None, and one operator applied to any of these.              *)
(***************************************************************************)
MaxOperand == 2

Operands == { Number(v) : v \in 0..MaxOperand }

ListValues == {List(<< >>)} \cup { List(<< a >>) : a \in Operands } \cup { List(<< a, b >>) : a \in Operands \cup {None}, b \in Operands \cup {None} }

ComparedOperators == {"eq", "lt", "gt", "le", "ge", "ne", "between"}

DictValues == { Dict(operator :> data) : operator \in ComparedOperators, data \in Operands \cup ListValues }

FilterValues == Operands \cup ListValues \cup DictValues

BoundLists == {"nomatch", "error"}

ModelFilter ==
    \E value \in FilterValues, x \in Operands, bound_list \in BoundLists :
        Applied([op |-> "model_filter", value |-> value, x |-> x,
                 bound_list |-> bound_list],
                Filtered_by(value, x, bound_list))

InitCondition == InitLog

NextCondition == ModelFilter \/ Returned

SpecCondition == InitCondition /\ [][NextCondition]_vars

FilterCall == call # NoCall /\ call.op = "model_filter"

OneOperator(operator) == /\ call.value.type = "dict"
                         /\ DOMAIN call.value.items = {operator}

Selected == result.exc = "none" /\ result.outcome = "match"

(***************************************************************************)
(* C19: a filter {lt: v} selects exactly the records whose attribute is    *)
(* below v, {gt: v} those above v, {between: [a, b]} those from a to b     *)
(* inclusive, and {between: [None, b]} those up to b.                      *)
(***************************************************************************)
C19_RangeFilters ==
    FilterCall =>
        /\ \A v \in Operands :
             /\ (OneOperator("lt") /\ call.value.items["lt"] = v)
                    => (Selected <=> call.x.v < v.v)
             /\ (OneOperator("gt") /\ call.value.items["gt"] = v)
                    => (Selected <=> call.x.v > v.v)
        /\ \A a \in Operands, b \in Operands :
             (OneOperator("between") /\ call.value.items["between"] = List(<< a, b >>))
                 => (Selected <=> (a.v <= call.x.v /\ call.x.v <= b.v))
        /\ \A b \in Operands :
             (OneOperator("between") /\ call.value.items["between"] = List(<< None, b >>))
                 => (Selected <=> call.x.v <= b.v)

(***************************************************************************)
(* C20: a one-element list [v] selects the same records as the scalar v,   *)
(* also as the value of the eq operator, and an empty list leaves every    *)
(* record selected.                                                        *)
(***************************************************************************)
C20_OneItemListAsScalar ==
    FilterCall =>
        /\ \A v \in Operands :
             (\/ call.value = List(<< v >>)
              \/ (OneOperator("eq") /\ call.value.items["eq"] = List(<< v >>)))
                 => (Selected <=> call.x.v = v.v)
        /\ call.value = List(<< >>) => (result.condition = NoCondition /\ Selected)

(***************************************************************************)
(* Host networks.  db.network holds the records of models.HostNetwork by   *)
(* id: the host that owns the network, its interface, its ip and its two   *)
(* flags.  A new record takes the lowest id not in use.                    *)
(***************************************************************************)
NumNetworks == 2

Networks == 1..NumNetworks

Interfaces == {"eth0", "eth1"}

Ips == {"10.0.0.1", "10.0.0.2"}

NoNetwork ==
    [ present |-> FALSE, host_id |-> 0, interface |-> "", ip |-> "",
      is_mgmt |-> FALSE, is_promiscuous |-> FALSE ]

(***************************************************************************)
(* models.HostNetwork(host_id, interface): a new network, its flags unset. *)
(***************************************************************************)
HostNetwork(host_id, interface) ==
    [ present |-> TRUE, host_id |-> host_id, interface |-> interface,
      ip |-> "", is_mgmt |-> FALSE, is_promiscuous |-> FALSE ]

Lowest(S) == CHOOSE n \in S : \A m \in S : n <= m

FreeNetworks(d) == { n \in Networks : ~d.network[n].present }

NetworksOf(d, host_id) ==
    { n \in Networks : d.network[n].present /\ d.network[n].host_id = host_id }

(***************************************************************************)
(* session.flush() on a written network: the store refuses an ip another   *)
(* network has (ip is uniquely indexed).                                   *)
(***************************************************************************)
flush_network(d0, d, n) ==
    IF \E m \in Networks \ {n} :
           d.network[m].present /\ d.network[m].ip = d.network[n].ip
    THEN Raise(d0, "DatabaseException", NoTask)
    ELSE Return(d, NoTask)

(***************************************************************************)
(* _add_host_network, lines 576-597, called with the keywords interface    *)
(* and those of kwargs.                                                    *)
(***************************************************************************)
_add_host_network(d, user, host_id, exception_when_existing, interface, kwargs) ==
    LET filtered == supported_filters(Filtered("_add_host_network"),
                                      {"interface"} \cup DOMAIN kwargs)
        existing == { n \in NetworksOf(d, host_id) :
                        d.network[n].interface = interface }
        n == IF existing # {} THEN Lowest(existing)
             ELSE Lowest(FreeNetworks(d))
        added == add_db_object(d.network[n], HostNetwork(host_id, interface),
                               exception_when_existing, kwargs)
    IN  IF filtered.exc # "none"
        THEN Raise(d, filtered.exc, NoTask)
        ELSE IF ~get_db_object(d.host, host_id)
        THEN Raise(d, "RecordNotExists", NoTask)
        ELSE IF ~is_host_editable(d.host[host_id], user, FALSE)
        THEN Raise(d, "Forbidden", NoTask)
        ELSE IF added.exc # "none"
        THEN Raise(d, added.exc, NoTask)
        ELSE flush_network(d, [d EXCEPT !.network[n] = added.db_object], n)

(***************************************************************************)
(* add_host_network, lines 600-613.                                        *)
(***************************************************************************)
add_host_network(d, user, host_id, exception_when_existing, interface, kwargs) ==
    run_in_session(d,
        check_user_permission_in_session(user, PERMISSION_ADD_HOST_NETWORK, d,
            _add_host_network(d, user, host_id, exception_when_existing,
                              interface, kwargs)))

(***************************************************************************)
(* add_host_networks, lines 615-661, for the networks of one host_data:    *)
(* a network whose ip another network has is set aside, the others are     *)
(* added one after the other; an exception of one ends the call.           *)
(***************************************************************************)
RECURSIVE add_host_networks_body(_, _, _, _, _)
add_host_networks_body(d, user, exception_when_existing, host_id, networks) ==
    IF networks = << >> THEN Return(d, NoTask)
    ELSE LET network == Head(networks)
             taken == { n \in Networks :
                          /\ d.network[n].present
                          /\ d.network[n].ip = network.ip }
             failed == \E n \in taken :
                           ~(/\ d.network[n].host_id = host_id
                             /\ d.network[n].interface = network.interface)
             added == _add_host_network(
                          d, user, host_id, exception_when_existing,
                          network.interface,
                          [ key \in DOMAIN network \ {"interface"} |->
                              network[key] ])
         IN  IF failed
             THEN add_host_networks_body(d, user, exception_when_existing,
                                         host_id, Tail(networks))
             ELSE IF added.exc # "none" THEN added
             ELSE add_host_networks_body(added.db, user,
                                         exception_when_existing, host_id,
                                         Tail(networks))

add_host_networks(d, user, exception_when_existing, host_id, networks) ==
    run_in_session(d,
        check_user_permission_in_session(user, PERMISSION_ADD_HOST_NETWORK, d,
            add_host_networks_body(d, user, exception_when_existing, host_id,
                                   networks)))

(***************************************************************************)
(* _update_host_network, lines 664-669.                                    *)
(***************************************************************************)
_update_host_network(d, user, host_network_id, kwargs) ==
    IF ~is_host_editable(d.host[d.network[host_network_id].host_id], user, FALSE)
    THEN Raise(d, "Forbidden", NoTask)
    ELSE flush_network(
             d,
             [d EXCEPT !.network[host_network_id] = update_db_object(@, kwargs)],
             host_network_id)

(***************************************************************************)
(* update_host_network, lines 672-699, and update_hostnetwork, lines       *)
(* 702-721, which does not take the host.                                  *)
(***************************************************************************)
update_host_network(d, user, host_id, host_network_id, kwargs) ==
    run_in_session(d,
        check_user_permission_in_session(user, PERMISSION_ADD_HOST_NETWORK, d,
            IF ~get_db_object(d.network, host_network_id)
            THEN Raise(d, "RecordNotExists", NoTask)
            ELSE IF d.network[host_network_id].host_id # host_id
            THEN Raise(d, "RecordNotExists", NoTask)
            ELSE _update_host_network(d, user, host_network_id, kwargs)))

update_hostnetwork(d, user, host_network_id, kwargs) ==
    run_in_session(d,
        check_user_permission_in_session(user, PERMISSION_ADD_HOST_NETWORK, d,
            IF ~get_db_object(d.network, host_network_id)
            THEN Raise(d, "RecordNotExists", NoTask)
            ELSE _update_host_network(d, user, host_network_id, kwargs)))

(***************************************************************************)
(* del_host_network, lines 724-745, and del_hostnetwork, lines 748-760.    *)
(***************************************************************************)
del_host_network(d, user, host_id, host_network_id) ==
    run_in_session(d,
        check_user_permission_in_session(user, PERMISSION_DEL_HOST_NETWORK, d,
            IF ~get_db_object(d.network, host_network_id)
            THEN Raise(d, "RecordNotExists", NoTask)
            ELSE IF d.network[host_network_id].host_id # host_id
            THEN Raise(d, "RecordNotExists", NoTask)
            ELSE IF ~is_host_editable(d.host[host_id], user, FALSE)
            THEN Raise(d, "Forbidden", NoTask)
            ELSE Return([d EXCEPT !.network[host_network_id] = NoNetwork],
                        NoTask)))

del_hostnetwork(d, user, host_network_id) ==
    run_in_session(d,
        check_user_permission_in_session(user, PERMISSION_DEL_HOST_NETWORK, d,
            IF ~get_db_object(d.network, host_network_id)
            THEN Raise(d, "RecordNotExists", NoTask)
            ELSE IF ~is_host_editable(
                        d.host[d.network[host_network_id].host_id], user, FALSE)
            THEN Raise(d, "Forbidden", NoTask)
            ELSE Return([d EXCEPT !.network[host_network_id] = NoNetwork],
                        NoTask)))

(***************************************************************************)
(* The calls of the network operations.  A caller of an add passes the ip, *)
(* the subnet (or leaves it out) and any of the two flags; a caller of an  *)
(* update passes one of ip, is_mgmt and is_promiscuous, or nothing; the    *)
(* networks of add_host_networks are management interfaces, and its        *)
(* exception_when_existing is left False.  The keywords are among those    *)
(* the operations declare, and the ips well formed (utils.check_ip).       *)
(***************************************************************************)
NetworkFlags == { [key \in keys |-> TRUE] : keys \in SUBSET {"is_mgmt", "is_promiscuous"} }

AddedNetworks == { [ip |-> ip, subnet_id |-> 1] @@ flags : ip \in Ips, flags \in NetworkFlags } \cup { [ip |-> ip] : ip \in Ips }

UpdatedNetworks == {NoKwargs} \cup { [ip |-> ip] : ip \in Ips } \cup { [is_mgmt |-> b] : b \in BOOLEAN } \cup { [is_promiscuous |-> b] : b \in BOOLEAN }

NetworkData == { [interface |-> interface, ip |-> ip, subnet_id |-> 1, is_mgmt |-> TRUE] : interface \in Interfaces, ip \in Ips }

NetworkBatches == UNION { [1..n -> NetworkData] : n \in 1..MaxBatch }

AddHostNetwork ==
    \E user \in Users, host_id \in Hosts, exception_when_existing \in BOOLEAN, interface \in Interfaces, kwargs \in AddedNetworks :
        /\ FreeNetworks(db) # {}
        /\ Called([op |-> "add_host_network", user |-> user.id,
                   host_id |-> host_id,
                   exception_when_existing |-> exception_when_existing,
                   interface |-> interface, kwargs |-> kwargs],
                  add_host_network(db, user, host_id, exception_when_existing,
                                   interface, kwargs))

AddHostNetworks ==
    \E user \in Users, host_id \in Hosts, exception_when_existing \in {FALSE}, networks \in NetworkBatches :
        /\ Cardinality(FreeNetworks(db)) >= Len(networks)
        /\ Called([op |-> "add_host_networks", user |-> user.id,
                   host_id |-> host_id,
                   exception_when_existing |-> exception_when_existing,
                   networks |-> networks],
                  add_host_networks(db, user, exception_when_existing, host_id,
                                    networks))

UpdateHostNetwork ==
    \E user \in Users, host_id \in Hosts, host_network_id \in Networks, kwargs \in UpdatedNetworks :
        Called([op |-> "update_host_network", user |-> user.id,
                host_id |-> host_id, host_network_id |-> host_network_id,
                kwargs |-> kwargs],
               update_host_network(db, user, host_id, host_network_id, kwargs))

UpdateHostnetwork ==
    \E user \in Users, host_network_id \in Networks, kwargs \in UpdatedNetworks :
        Called([op |-> "update_hostnetwork", user |-> user.id,
                host_network_id |-> host_network_id, kwargs |-> kwargs],
               update_hostnetwork(db, user, host_network_id, kwargs))

DelHostNetwork ==
    \E user \in Users, host_id \in Hosts, host_network_id \in Networks :
        Called([op |-> "del_host_network", user |-> user.id,
                host_id |-> host_id, host_network_id |-> host_network_id],
               del_host_network(db, user, host_id, host_network_id))

DelHostnetwork ==
    \E user \in Users, host_network_id \in Networks :
        Called([op |-> "del_hostnetwork", user |-> user.id,
                host_network_id |-> host_network_id],
               del_hostnetwork(db, user, host_network_id))

(***************************************************************************)
(* The hosts have no network yet; host 1 is INSTALLING, the others         *)
(* UNINITIALIZED, all flagged reinstall_os.                                *)
(***************************************************************************)
InitNetwork ==
    /\ db = [network |-> [n \in Networks |-> NoNetwork]]
              @@ Db([h \in Hosts |->
                       Host(IF h = 1 THEN "INSTALLING" ELSE "UNINITIALIZED",
                            FALSE, TRUE, FALSE)])
    /\ pre = db
    /\ call = NoCall
    /\ result = NoResult

NextNetwork ==
    \/ AddHostNetwork
    \/ AddHostNetworks
    \/ UpdateHostNetwork
    \/ UpdateHostnetwork
    \/ DelHostNetwork
    \/ DelHostnetwork
    \/ Returned

SpecNetwork == InitNetwork /\ [][NextNetwork]_vars

MgmtNetworks(d, host_id) == { n \in NetworksOf(d, host_id) : d.network[n].is_mgmt }

(***************************************************************************)
(* C21: whatever network operations have succeeded, no host has two        *)
(* networks flagged is_mgmt and no network is flagged both is_mgmt and     *)
(* is_promiscuous.                                                         *)
(***************************************************************************)
C21_NetworkFlags ==
    /\ \A host_id \in Hosts : Cardinality(MgmtNetworks(db, host_id)) <= 1
    /\ \A n \in Networks :
         db.network[n].present
             => ~(db.network[n].is_mgmt /\ db.network[n].is_promiscuous)

(***************************************************************************)
(* The progression of state.state: UNINITIALIZED to INSTALLING, INSTALLING *)
(* to READY or ERROR; READY and ERROR are its ends.                        *)
(***************************************************************************)
Progression == { <<"UNINITIALIZED", "INSTALLING">>, <<"INSTALLING", "READY">>, <<"INSTALLING", "ERROR">> }

Terminal == {"READY", "ERROR"}

ForcedOverride(from, to) ==
    /\ call.op = "del_host"
    /\ call.force
    /\ from \notin Terminal
    /\ to = "ERROR"

(***************************************************************************)
(* C22: a call changes the state value of a host only along the            *)
(* progression, or from a state that is not an end to ERROR when it is a   *)
(* del_host with force.                                                    *)
(***************************************************************************)
C22_StateProgression ==
    call # NoCall =>
        \A h \in Hosts :
            LET from == pre.host[h].state.state
                to == db.host[h].state.state
            IN  \/ to = from
                \/ <<from, to>> \in Progression
                \/ ForcedOverride(from, to)

(***************************************************************************)
(* The state values a del_host may touch: that of its host and those of    *)
(* the host's memberships.  Forced(from, to): what force makes of one.     *)
(***************************************************************************)
Forced(from, to) == to = IF from # "UNINITIALIZED" THEN "ERROR" ELSE from

StatesUnchanged ==
    /\ \A h \in Hosts : db.host[h].state.state = pre.host[h].state.state
    /\ \A m \in ClusterHosts :
           db.clusterhost[m].state.state = pre.clusterhost[m].state.state

(***************************************************************************)
(* C23: del_host changes state values only with force.  A del_host with    *)
(* force that returns leaves the state of its host and of each of the      *)
(* host's memberships ERROR where it was not UNINITIALIZED and as it was   *)
(* where it was UNINITIALIZED, and touches no other state value; a         *)
(* del_host without force, or one that raises, changes no state value of   *)
(* a host or a membership.                                                 *)
(***************************************************************************)
C23_DelHostForceFrame ==
    call.op = "del_host" =>
        IF call.force /\ result.exc = "none"
        THEN /\ \A h \in Hosts :
                  IF h = call.host_id
                  THEN Forced(pre.host[h].state.state, db.host[h].state.state)
                  ELSE db.host[h].state.state = pre.host[h].state.state
             /\ \A m \in ClusterHosts :
                  IF m[1] = call.host_id
                  THEN Forced(pre.clusterhost[m].state.state,
                              db.clusterhost[m].state.state)
                  ELSE db.clusterhost[m].state.state
                           = pre.clusterhost[m].state.state
        ELSE StatesUnchanged

(* del_host with force has returned on an INSTALLING host that has a       *)
(* membership that was INSTALLING and one that was UNINITIALIZED: host and *)
(* the first are ERROR now, the second is UNINITIALIZED still.             *)
C23_Witness ==
    /\ call.op = "del_host"
    /\ call.force
    /\ result.exc = "none"
    /\ HostBefore.state.state = "INSTALLING"
    /\ HostAfter.state.state = "ERROR"
    /\ \E m \in ClusterHosts :
           /\ m[1] = call.host_id
           /\ pre.clusterhost[m].state.state = "INSTALLING"
           /\ db.clusterhost[m].state.state = "ERROR"
    /\ \E m \in ClusterHosts :
           /\ m[1] = call.host_id
           /\ pre.clusterhost[m].state.state = "UNINITIALIZED"
           /\ db.clusterhost[m].state.state = "UNINITIALIZED"

(***************************************************************************)
(* utils.model_filter, lines 210-222, seen from one record of the model:   *)
(* each filter whose key is an attribute of the model is compiled and,     *)
(* unless it compiles to None, added to the query with query.filter; the   *)
(* other keys are skipped.  The record is returned when it matches every   *)
(* condition added.  The keys are taken in the order of SortedKeys; the    *)
(* order of filters.items() decides only which exception is seen when      *)
(* several filters raise.                                                  *)
(***************************************************************************)
ModelAttributes == {"id", "os_id"}

SortedKeys == << "id", "os_id", "tag" >>

model_filter(model, filters, record, bound_list) ==
    LET hasattr(key) == key \in DOMAIN filters /\ key \in model
        keys == SelectSeq(SortedKeys, hasattr)
        filtered == [ i \in DOMAIN keys |->
                        Filtered_by(filters[keys[i]], record[keys[i]], bound_list) ]
        raised == { i \in DOMAIN keys : filtered[i].exc # "none" }
        outcomes == { filtered[i].outcome : i \in DOMAIN keys }
    IN  IF raised # {}
        THEN [exc |-> filtered[Lowest(raised)].exc, sent |-> NoTask,
              outcome |-> "error"]
        ELSE [exc |-> "none", sent |-> NoTask,
              outcome |-> IF "error" \in outcomes THEN "error"
                          ELSE Truth("nomatch" \notin outcomes)]

(***************************************************************************)
(* The filters tried together: on each attribute a number, a one-operator  *)
(* comparison, or eq with a one-element list; on the key the model does    *)
(* not have, a number.                                                     *)
(***************************************************************************)
AttributeFilters == Operands \cup { Dict(operator :> v) : operator \in {"lt", "gt"}, v \in Operands } \cup { Dict("eq" :> List(<< v >>)) : v \in Operands }

KeyFilters(key) == IF key \in ModelAttributes THEN AttributeFilters ELSE Operands

Filters == UNION { { f \in [keys -> AttributeFilters] : \A key \in keys : f[key] \in KeyFilters(key) } : keys \in SUBSET (ModelAttributes \cup {"tag"}) }

ModelRecords == [ModelAttributes -> Operands]

ModelFilters ==
    \E filters \in Filters, record \in ModelRecords, bound_list \in BoundLists :
        Applied([op |-> "model_filters", filters |-> filters,
                 record |-> record, bound_list |-> bound_list],
                model_filter(ModelAttributes, filters, record, bound_list))

InitQuery == InitLog

NextQuery == ModelFilters \/ Returned

SpecQuery == InitQuery /\ [][NextQuery]_vars

(***************************************************************************)
(* What it is for an attribute value to satisfy a filter value: equality   *)
(* with a number or with the element of a one-element list, and the        *)
(* comparison an operator names.                                           *)
(***************************************************************************)
Satisfies(x, value) ==
    CASE value.type = "number" -> x.v = value.v
      [] value.type = "dict" /\ DOMAIN value.items = {"lt"} -> x.v < value.items["lt"].v
      [] value.type = "dict" /\ DOMAIN value.items = {"gt"} -> x.v > value.items["gt"].v
      [] value.type = "dict" /\ DOMAIN value.items = {"eq"} -> x.v = value.items["eq"].items[1].v

(***************************************************************************)
(* C24: model_filter given several filters raises nothing and returns a    *)
(* record exactly when the record satisfies every filter whose key is an   *)
(* attribute of the model; a filter on another key changes nothing.        *)
(***************************************************************************)
C24_FiltersAndCombined ==
    (call # NoCall /\ call.op = "model_filters") =>
        /\ result.exc = "none"
        /\ result.outcome = "match"
             <=> \A key \in DOMAIN call.filters \cap ModelAttributes :
                     Satisfies(call.record[key], call.filters[key])

(***************************************************************************)
(* utils.general_filter_callback, lines 415-437, on numbers: the first     *)
(* operator of the chain that general_filter holds decides.  The value is  *)
(* "true" or "false", or the exception raised: the resp_ge branch reads    *)
(* general_filter['resp_gt'], a key the branches before it have found      *)
(* absent.  resp_match, on strings, is left out.                           *)
(***************************************************************************)
general_filter_callback(general_filter, obj) ==
    LET given(operator) == operator \in DOMAIN general_filter
        bool(b) == IF b THEN "true" ELSE "false"
    IN  IF given("resp_eq") THEN bool(general_filter["resp_eq"] = obj)
        ELSE IF given("resp_in")
        THEN LET in_filters == general_filter["resp_in"].items
             IN  bool(in_filters = << >>
                        \/ \E i \in DOMAIN in_filters : in_filters[i] = obj)
        ELSE IF given("resp_lt") THEN bool(obj.v < general_filter["resp_lt"].v)
        ELSE IF given("resp_le") THEN bool(obj.v <= general_filter["resp_le"].v)
        ELSE IF given("resp_gt") THEN bool(obj.v > general_filter["resp_gt"].v)
        ELSE IF given("resp_ge")
        THEN IF given("resp_gt") THEN bool(obj.v >= general_filter["resp_gt"].v)
             ELSE "KeyError"
        ELSE "true"

(***************************************************************************)
(* utils.filter_output, lines 440-455, with general_filter_callback as     *)
(* the callback of every key; callback_keys is filter_callbacks.items()    *)
(* in the order the dictionary gives them.                                 *)
(***************************************************************************)
RECURSIVE filter_output(_, _, _, _)
filter_output(callback_keys, filters, obj, missing_ok) ==
    IF callback_keys = << >>
    THEN [exc |-> "none", sent |-> NoTask, kept |-> TRUE]
    ELSE LET callback_key == Head(callback_keys)
             rest == filter_output(Tail(callback_keys), filters, obj, missing_ok)
         IN  IF callback_key \notin DOMAIN filters THEN rest
             ELSE IF callback_key \notin DOMAIN obj
             THEN IF missing_ok THEN rest
                  ELSE [exc |-> InvalidResponse, sent |-> NoTask, kept |-> FALSE]
             ELSE LET passed == general_filter_callback(filters[callback_key],
                                                        obj[callback_key])
                  IN  IF passed = "true" THEN rest
                      ELSE IF passed = "false"
                      THEN [exc |-> "none", sent |-> NoTask, kept |-> FALSE]
                      ELSE [exc |-> passed, sent |-> NoTask, kept |-> FALSE]

(***************************************************************************)
(* The calls tried: callbacks on two fields, one operator for each field   *)
(* filtered, records with or without each field.                           *)
(***************************************************************************)
CallbackKeys == {"id", "os_id"}

CallbackOrders == { << "id", "os_id" >>, << "os_id", "id" >> }

ComparingOperators == {"resp_eq", "resp_lt", "resp_le", "resp_gt", "resp_ge"}

GeneralFilters == { operator :> v : operator \in ComparingOperators, v \in Operands } \cup { "resp_in" :> List(items) : items \in {<< >>} \cup { << v >> : v \in Operands } }

OutputFilters == UNION { [keys -> GeneralFilters] : keys \in SUBSET CallbackKeys }

OutputRecords == UNION { [keys -> Operands] : keys \in SUBSET CallbackKeys }

FilterOutput ==
    \E callback_keys \in CallbackOrders, filters \in OutputFilters, obj \in OutputRecords, missing_ok \in BOOLEAN :
        Applied([op |-> "filter_output", callback_keys |-> callback_keys,
                 filters |-> filters, obj |-> obj, missing_ok |-> missing_ok],
                filter_output(callback_keys, filters, obj, missing_ok))

InitOutput == InitLog

NextOutput == FilterOutput \/ Returned

SpecOutput == InitOutput /\ [][NextOutput]_vars

(***************************************************************************)
(* What it is for a field value to satisfy the operator supplied.          *)
(***************************************************************************)
Holds(general_filter, x) ==
    LET operator == CHOOSE o \in DOMAIN general_filter : TRUE
        v == general_filter[operator]
    IN  CASE operator = "resp_eq" -> x.v = v.v
          [] operator = "resp_in" -> v.items = << >> \/ \E i \in DOMAIN v.items : v.items[i] = x
          [] operator = "resp_lt" -> x.v < v.v
          [] operator = "resp_le" -> x.v <= v.v
          [] operator = "resp_gt" -> x.v > v.v
          [] operator = "resp_ge" -> x.v >= v.v

Supplied == DOMAIN call.filters \cap CallbackKeys

(***************************************************************************)
(* C25: filter_output keeps a record exactly when every field a supplied   *)
(* filter names satisfies the operator supplied (resp_ge v: value >= v);   *)
(* a record lacking such a field is kept when missing_ok is set, and       *)
(* without missing_ok the call raises InvalidResponse.                     *)
(***************************************************************************)
C25_OutputFilter ==
    (call # NoCall /\ call.op = "filter_output") =>
        IF ~call.missing_ok /\ \E key \in Supplied : key \notin DOMAIN call.obj
        THEN result.exc = InvalidResponse
        ELSE /\ result.exc = "none"
             /\ result.kept
                  <=> \A key \in Supplied \cap DOMAIN call.obj :
                          Holds(call.filters[key], call.obj[key])

(***************************************************************************)
(* The operations on the os config of a host.  The keyword os_config of    *)
(* the caller reaches the host as put_os_config (update_host_config) or    *)
(* patched_os_config (patch_host_config), which models.Host stores in      *)
(* os_config; valid says whether metadata_api.validate_os_config accepts   *)
(* the config.                                                             *)
(***************************************************************************)
_update_host_config(d, user, host_id, os_config) ==
    IF ~is_host_editable(d.host[host_id], user, FALSE)
    THEN Raise(d, "Forbidden", NoTask)
    ELSE Return([d EXCEPT !.host[host_id] =
                              update_db_object(@, [os_config |-> os_config])],
                NoTask)

(***************************************************************************)
(* update_host_config, lines 422-453: the config is validated on the way   *)
(* in (input_validates), before _update_host_config.                       *)
(***************************************************************************)
update_host_config(d, user, host_id, os_config, valid) ==
    run_in_session(d,
        check_user_permission_in_session(user, PERMISSION_ADD_HOST_CONFIG, d,
            IF ~get_db_object(d.host, host_id)
            THEN Raise(d, "RecordNotExists", NoTask)
            ELSE IF ~valid
            THEN Raise(d, "InvalidParameter", NoTask)
            ELSE _update_host_config(d, user, host_id, os_config)))

(***************************************************************************)
(* patch_host_config, lines 456-487: the config is validated on the way    *)
(* out (output_validates), after _update_host_config has written it.       *)
(***************************************************************************)
patch_host_config(d, user, host_id, os_config, valid) ==
    run_in_session(d,
        check_user_permission_in_session(user, PERMISSION_ADD_HOST_CONFIG, d,
            IF ~get_db_object(d.host, host_id)
            THEN Raise(d, "RecordNotExists", NoTask)
            ELSE LET updated == _update_host_config(d, user, host_id, os_config)
                 IN  IF updated.exc = "none" /\ ~valid
                     THEN Raise(updated.db, "InvalidParameter", NoTask)
                     ELSE updated))

(***************************************************************************)
(* del_host_config, lines 490-504.                                         *)
(***************************************************************************)
del_host_config(d, user, host_id) ==
    run_in_session(d,
        check_user_permission_in_session(user, PERMISSION_DEL_HOST_CONFIG, d,
            IF ~get_db_object(d.host, host_id)
            THEN Raise(d, "RecordNotExists", NoTask)
            ELSE IF ~is_host_editable(d.host[host_id], user, FALSE)
            THEN Raise(d, "Forbidden", NoTask)
            ELSE Return([d EXCEPT !.host[host_id] =
                             update_db_object(@, [os_config |-> 0,
                                                  config_validated |-> FALSE])],
                        NoTask)))

UpdateHostConfig ==
    \E user \in Users, host_id \in Hosts, os_config \in Configs, valid \in BOOLEAN :
        Called([op |-> "update_host_config", user |-> user.id,
                host_id |-> host_id, os_config |-> os_config, valid |-> valid],
               update_host_config(db, user, host_id, os_config, valid))

PatchHostConfig ==
    \E user \in Users, host_id \in Hosts, os_config \in Configs, valid \in BOOLEAN :
        Called([op |-> "patch_host_config", user |-> user.id,
                host_id |-> host_id, os_config |-> os_config, valid |-> valid],
               patch_host_config(db, user, host_id, os_config, valid))

DelHostConfig ==
    \E user \in Users, host_id \in Hosts :
        Called([op |-> "del_host_config", user |-> user.id, host_id |-> host_id],
               del_host_config(db, user, host_id))

(***************************************************************************)
(* Editing a host during its installation.  Host 1 is INSTALLING, flagged  *)
(* reinstall_os or not, its config validated or not, and has the           *)
(* management interface eth0; the other hosts are UNINITIALIZED and have   *)
(* no network.  Each behaviour is one call on this store.                  *)
(***************************************************************************)
InitEdit ==
    /\ db \in { [network |-> [n \in Networks |->
                                IF n = 1
                                THEN [HostNetwork(1, "eth0") EXCEPT
                                        !.ip = "10.0.0.1", !.is_mgmt = TRUE]
                                ELSE NoNetwork]]
                  @@ Db([h \in Hosts |->
                           [os_config |-> 1]
                             @@ IF h = 1
                                THEN Host("INSTALLING", FALSE, reinstall_os, validated)
                                ELSE Host("UNINITIALIZED", FALSE, TRUE, FALSE)]) :
                reinstall_os \in BOOLEAN, validated \in BOOLEAN }
    /\ pre = db
    /\ call = NoCall
    /\ result = NoResult

NextEdit ==
    \/ UpdateHostConfig
    \/ PatchHostConfig
    \/ UpdateHostDeployedConfig
    \/ DelHostConfig
    \/ AddHostNetwork
    \/ UpdateHostNetwork
    \/ DelHostNetwork

SpecEdit == InitEdit /\ [][NextEdit]_vars

EditOperations == { "update_host_config", "patch_host_config", "update_host_deployed_config", "del_host_config", "add_host_network", "update_host_network", "del_host_network" }

(***************************************************************************)
(* The last call edits the config or a network of a host that was          *)
(* INSTALLING: the host exists, the network the call names is its, the     *)
(* config passed is one the metadata accepts and the keywords of an added  *)
(* network include the subnet.                                             *)
(***************************************************************************)
EditsInstallingHost ==
    /\ call.op \in EditOperations
    /\ call.op \in {"update_host_config", "patch_host_config"} => call.valid
    /\ call.op = "add_host_network" => "subnet_id" \in DOMAIN call.kwargs
    /\ HostBefore.present
    /\ HostBefore.state.state = "INSTALLING"
    /\ call.op \in {"update_host_network", "del_host_network"}
         => /\ pre.network[call.host_network_id].present
            /\ pre.network[call.host_network_id].host_id = call.host_id

(***************************************************************************)
(* C26: an operation that edits the config or the networks of a host       *)
(* whose state is INSTALLING raises Forbidden and leaves the store as it   *)
(* was, whatever the host's reinstall_os and whoever calls.                *)
(***************************************************************************)
C26_InstallingNotEdited ==
    EditsInstallingHost => (result.exc = "Forbidden" /\ db = pre)

(***************************************************************************)
(* Installations reported while celery works.  In this specification       *)
(* result.sent keeps every os_installed request sent so far, in order,     *)
(* result.pending the places of those the task system has not run yet,     *)
(* and call.reported the hosts reported so far.  Each host is reported     *)
(* once, by update_host_state_internal(host, ready=True), by a caller who  *)
(* holds the permission; the task system runs a pending request at any     *)
(* time and records its host as ready with                                 *)
(* update_host_state_internal(host, from_database_only=True, ready=True).  *)
(***************************************************************************)
Reporters == { user \in Users : PERMISSION_UPDATE_HOST_STATE \in user.perms }

ReportReady ==
    \E user \in Reporters, host_id \in Hosts \ call.reported :
        LET r == update_host_state_internal(db, user, host_id, FALSE,
                                            [ready |-> TRUE])
            first == Len(result.sent) + 1
        IN  /\ db' = r.db
            /\ pre' = db
            /\ call' = [op |-> "update_host_state_internal", user |-> user.id,
                        host_id |-> host_id,
                        reported |-> call.reported \cup {host_id}]
            /\ result' = [exc |-> r.exc, sent |-> result.sent \o r.sent,
                          pending |-> result.pending
                                        \cup (first..(first + Len(r.sent) - 1))]

OsInstalled ==
    \E i \in result.pending :
        LET host_id == result.sent[i].args[1]
            r == update_host_state_internal(db, User("admin"), host_id, TRUE,
                                            [ready |-> TRUE])
        IN  /\ db' = r.db
            /\ pre' = db
            /\ call' = [call EXCEPT !.op = "compass.tasks.os_installed",
                                    !.host_id = host_id]
            /\ result' = [result EXCEPT !.pending = @ \ {i}]

InitReady ==
    /\ db \in { Db(host) :
                  host \in [Hosts -> { Host(s, FALSE, r, FALSE) :
                                         s \in {"UNINITIALIZED", "INSTALLING"},
                                         r \in BOOLEAN }] }
    /\ pre = db
    /\ call = [op |-> "none", user |-> "none", host_id |-> 0, reported |-> {}]
    /\ result = [exc |-> "none", sent |-> NoTask, pending |-> {}]

NextReady == ReportReady \/ OsInstalled

SpecReady == InitReady /\ [][NextReady]_vars

AllReported(cluster_id) == HostsOf(cluster_id) \subseteq call.reported

(***************************************************************************)
(* C27: once update_host_state_internal(ready=True) has been called for    *)
(* every host of a cluster, one of the os_installed requests sent carries  *)
(* cluster_os_ready true for the cluster, however the calls and the task   *)
(* system's recordings are interleaved.                                    *)
(***************************************************************************)
C27_SomeNotificationClusterReady ==
    \A cluster_id \in Clusters :
        (HostsOf(cluster_id) # {} /\ AllReported(cluster_id))
            => \E i \in DOMAIN result.sent :
                   /\ cluster_id \in DOMAIN result.sent[i].args[3]
                   /\ result.sent[i].args[3][cluster_id]

(***************************************************************************)
(* The end of the session of a call: when the body has returned, the       *)
(* transaction is committed, and the commit itself may fail in the store   *)
(* (committed false): the writes of the call are rolled back and the       *)
(* caller gets the exception.  What the body has sent with send_task was   *)
(* sent when the body ran.                                                 *)
(***************************************************************************)
session_commit(d, r, committed) ==
    IF r.exc = "none" /\ ~committed
    THEN Raise(d, "DatabaseException", r.sent)
    ELSE r

DelHostCommitted ==
    \E user \in Users, host_id \in Hosts, force \in BOOLEAN, from_database_only \in BOOLEAN, committed \in BOOLEAN :
        Called([op |-> "del_host", user |-> user.id, host_id |-> host_id,
                force |-> force, from_database_only |-> from_database_only,
                committed |-> committed],
               session_commit(db,
                   del_host(db, user, host_id, force, from_database_only),
                   committed))

UpdateHostStateInternalCommitted ==
    \E user \in Users, host_id \in Hosts, from_database_only \in BOOLEAN, kwargs \in UpdatedStateInternalFields, committed \in BOOLEAN :
        Called([op |-> "update_host_state_internal", user |-> user.id,
                host_id |-> host_id,
                from_database_only |-> from_database_only, kwargs |-> kwargs,
                committed |-> committed],
               session_commit(db,
                   update_host_state_internal(db, user, host_id,
                                              from_database_only, kwargs),
                   committed))

PowerHostCommitted ==
    \E user \in Users, host_id \in Hosts, op \in PowerOps, committed \in BOOLEAN :
        Called([op |-> op, user |-> user.id, host_id |-> host_id,
                committed |-> committed],
               session_commit(db,
                   CASE op = "poweron_host" -> poweron_host(db, user, host_id)
                     [] op = "poweroff_host" -> poweroff_host(db, user, host_id)
                     [] op = "reset_host" -> reset_host(db, user, host_id),
                   committed))

InitCommit ==
    /\ db \in { Db(host) :
                  host \in [Hosts -> { Host(s, FALSE, TRUE, TRUE) :
                                         s \in {"UNINITIALIZED", "INSTALLING"} }] }
    /\ pre = db
    /\ call = NoCall
    /\ result = NoResult

NextCommit ==
    \/ DelHostCommitted
    \/ UpdateHostStateInternalCommitted
    \/ PowerHostCommitted
    \/ Returned

SpecCommit == InitCommit /\ [][NextCommit]_vars

TaskOperations == {"del_host", "update_host_state_internal"} \cup PowerOps

(***************************************************************************)
(* C28: a call whose transaction is rolled back, the call raising in its   *)
(* body or at its commit, leaves no request on the task system.            *)
(***************************************************************************)
C28_RolledBackSendsNothing ==
    (call.op \in TaskOperations /\ result.exc # "none")
        => result.sent = NoTask

====
